---------------------------- MODULE Spec2Model ----------------------------
(***************************************************************************)
(* Verification model of the verl tool runtime: the file editor, the file  *)
(* reader, the command runner and the task ledger                          *)
(* (src/verl/tools/*.py).                                                  *)
(*                                                                         *)
(* Text is modelled as a sequence of tokens.  A file's content and the     *)
(* edit strings are sequences over Alphabet, where "CR" and "LF" stand for *)
(* the bytes \r and \n.  A caller-supplied path is a sequence of tokens    *)
(* where "/" is the separator and " " is white space.  Rewards are in      *)
(* tenths (0, 5, 10 for 0.0, 0.5, 1.0).                                    *)
(***************************************************************************)
EXTENDS Integers, Sequences, FiniteSets, TLC

VARIABLES
    fs,          \* the filesystem: absolute path -> node
    cfgBackup,   \* FileEditTool.create_backup, fixed at construction
    editInst,    \* FileEditTool._instance_dict
    readInst,    \* FileReaderTool._instance_dict
    frame,       \* the execute call of the file editor that is in progress
    peer,        \* the execute call of the file editor that a second worker is in
    cfgAllowed,  \* BashTool.allowed_commands, fixed at construction
    bashInst,    \* BashTool._instance_dict
    procs,       \* the operating system's live processes
    bframe,      \* the execute call of the command runner that is in progress
    cfgMaxItems, \* TodoListTool.max_items, fixed at construction
    todoInst,    \* TodoListTool._instance_dict
    now,         \* datetime.now() as of the last ledger call
    added,       \* per ledger instance, how many add calls have succeeded
    interInst,   \* RepoExplorationInteraction._instance_dict
    ended,       \* the sessions for which terminate = true has been returned
    issued,      \* how many instance ids uuid4() has generated so far
    ret          \* what the last completed call returned

fileVars == <<fs, cfgBackup, editInst, readInst, frame, peer>>
bashVars == <<cfgAllowed, bashInst, procs, bframe>>
todoVars == <<cfgMaxItems, todoInst, now, added>>
interVars == <<interInst, ended>>
nonFileVars == <<bashVars, todoVars, interVars, issued>>
nonBashVars == <<fileVars, todoVars, interVars, issued>>
nonTodoVars == <<fileVars, bashVars, interVars, issued>>
nonInterVars == <<fileVars, bashVars, todoVars, issued>>
vars == <<fileVars, bashVars, todoVars, interVars, issued, ret>>

---------------------------------------------------------------------------
(* Bounds of the model *)

MaxLen == 2          \* longest initial file content
MaxEdits == 2        \* cap on an instance's edit counter
MaxLinkDepth == 3    \* symbolic links followed by one resolution
MaxReads == 1        \* cap on an instance's count of successful reads
MaxCommands == 2     \* cap on an instance's command history
MaxAdds == 3         \* cap on a ledger's id counter
MaxTime == 2         \* cap on the clock
MaxCalls == 4        \* cap on a session's turn count
MaxListed == 13      \* items of the ledger that list is checked on
MaxUuids == 1        \* cap on the instance ids that uuid4() generates

(* Configuration *)

MaxFileSize == 2     \* config "max_file_size", in bytes
MaxLines == 2        \* config "max_lines" of the file reader
ReaderMaxFileSize == 4   \* config "max_file_size" of the file reader, in bytes
DefaultTimeout == 30 \* config "timeout" of the command runner, in seconds
MaxOutputLength == 600   \* config "max_output_length", in characters
ContextBelow == 500  \* outputs shorter than this get the working directory
MaxItems == 2        \* config "max_items" of the small ledger
DefaultMaxItems == 100   \* max_items when the config names none
ShownCompleted == 10 \* how many completed items a listing shows
MaxTurns == 3        \* config "max_turns" of the interaction
MinAnalysisLength == 200     \* config "min_analysis_length", in characters

---------------------------------------------------------------------------
(* Generic helpers on sequences *)

RECURSIVE SeqsUpTo(_, _)
SeqsUpTo(S, n) ==
    IF n = 0 THEN {<<>>}
    ELSE LET shorter == SeqsUpTo(S, n - 1)
         IN  shorter \cup {Append(s, c) : s \in {t \in shorter : Len(t) = n - 1}, c \in S}

IsPrefix(p, s) == Len(p) <= Len(s) /\ SubSeq(s, 1, Len(p)) = p

\* Python: s.startswith(p)
StartsWith(s, p) == IsPrefix(p, s)

\* Python: str.find(sub): the least 0-based... here 1-based index at which sub
\* occurs in s, 0 when it does not occur.
Find(s, sub) ==
    LET hits == {i \in 1..(Len(s) - Len(sub) + 1) : SubSeq(s, i, i + Len(sub) - 1) = sub}
    IN  IF hits = {} THEN 0 ELSE CHOOSE i \in hits : \A j \in hits : i <= j

\* Python: sub in s
Contains(s, sub) == Find(s, sub) # 0

\* Python: s.replace(old, new, 1), for a non-empty old
ReplaceFirst(s, old, new) ==
    LET i == Find(s, old)
    IN  IF i = 0 THEN s
        ELSE SubSeq(s, 1, i - 1) \o new \o SubSeq(s, i + Len(old), Len(s))

RECURSIVE StripLeft(_, _)
StripLeft(s, c) == IF s # <<>> /\ Head(s) = c THEN StripLeft(Tail(s), c) ELSE s

RECURSIVE StripRight(_, _)
StripRight(s, c) ==
    IF s # <<>> /\ s[Len(s)] = c THEN StripRight(SubSeq(s, 1, Len(s) - 1), c) ELSE s

\* Python: str.strip() (white space is the token " ")
Strip(s) == StripRight(StripLeft(s, " "), " ")

---------------------------------------------------------------------------
(* Text files: open(path, 'r', encoding='utf-8') and open(path, 'w', ...) *)

Alphabet == {"a", "b", "CR", "LF"}

\* Reading in text mode with newline=None: "\r\n" and a lone "\r" both come
\* back as "\n" (universal newlines).
RECURSIVE TextRead(_)
TextRead(raw) ==
    IF raw = <<>> THEN <<>>
    ELSE IF Head(raw) = "CR"
         THEN IF Len(raw) >= 2 /\ raw[2] = "LF"
              THEN <<"LF">> \o TextRead(SubSeq(raw, 3, Len(raw)))
              ELSE <<"LF">> \o TextRead(Tail(raw))
         ELSE <<Head(raw)>> \o TextRead(Tail(raw))

\* Writing in text mode with newline=None on POSIX: "\n" is written as
\* os.linesep, which is "\n"; every other character is written as it is.
TextWrite(text) == text

---------------------------------------------------------------------------
(* The filesystem and path resolution *)

Root == <<"sb">>                 \* self.verl_pwd, the sandbox root

File(data) == [kind |-> "file", data |-> data, target |-> <<>>]
Dir == [kind |-> "dir", data |-> <<>>, target |-> <<>>]
Link(target) == [kind |-> "link", data |-> <<>>, target |-> target]

Exists(fsys, p) == p \in DOMAIN fsys
IsLink(fsys, p) == Exists(fsys, p) /\ fsys[p].kind = "link"
Parent(p) == IF p = <<>> THEN <<>> ELSE SubSeq(p, 1, Len(p) - 1)

\* pathlib: the components of a relative path string; empty components and
\* "." are dropped, ".." is kept.
RECURSIVE SplitPath(_, _)
SplitPath(s, cur) ==
    LET flush == IF cur = "" \/ cur = "." THEN <<>> ELSE <<cur>>
    IN  IF s = <<>> THEN flush
        ELSE IF Head(s) = "/" THEN flush \o SplitPath(Tail(s), "")
        ELSE SplitPath(Tail(s), cur \o Head(s))

ELoop == <<"<symlink loop>">>

\* Path.resolve(): walk the components from the filesystem root, following
\* symbolic links; ".." goes to the parent of the path resolved so far; a name
\* that does not exist is kept as it is.
RECURSIVE Walk(_, _, _, _)
Walk(fsys, cur, rest, fuel) ==
    IF rest = <<>> THEN cur
    ELSE LET c == Head(rest)
             nxt == Append(cur, c)
         IN  IF c = ".." THEN Walk(fsys, Parent(cur), Tail(rest), fuel)
             ELSE IF IsLink(fsys, nxt)
                  THEN IF fuel = 0 THEN ELoop
                       ELSE Walk(fsys, <<>>, fsys[nxt].target \o Tail(rest), fuel - 1)
                  ELSE Walk(fsys, nxt, Tail(rest), fuel)

Resolve(fsys, abs) == Walk(fsys, <<>>, abs, MaxLinkDepth)

\* PurePath.relative_to(root) succeeds
IsRelativeTo(p, root) == IsPrefix(root, p)

\* os.path.normpath: ".." handled on the text of the path, links not followed
RECURSIVE NormPath(_, _)
NormPath(cur, rest) ==
    IF rest = <<>> THEN cur
    ELSE IF Head(rest) = ".." THEN NormPath(Parent(cur), Tail(rest))
    ELSE NormPath(Append(cur, Head(rest)), Tail(rest))

\* the path check done on the normalised path, without resolving links
GetSafePathLexical(fsys, filepath) ==
    LET full_path == NormPath(<<>>, Root \o SplitPath(StripLeft(filepath, "/"), ""))
    IN  IF IsPrefix(Root, full_path)
        THEN [ok |-> TRUE, path |-> full_path]
        ELSE [ok |-> FALSE, path |-> <<>>]

\* _get_safe_path (the same code in the editor and in the reader):
\* [ok |-> FALSE] is the None result.
GetSafePath(fsys, filepath) ==
    LET rel == StripLeft(filepath, "/")
        full_path == Root \o SplitPath(rel, "")
        resolved_path == Resolve(fsys, full_path)
        verl_pwd_resolved == Resolve(fsys, Root)
    IN  IF resolved_path = ELoop \/ verl_pwd_resolved = ELoop
        THEN [ok |-> FALSE, path |-> <<>>]
        ELSE IF IsRelativeTo(resolved_path, verl_pwd_resolved)
             THEN [ok |-> TRUE, path |-> resolved_path]
             ELSE [ok |-> FALSE, path |-> <<>>]

\* os.path.isfile(p): follows links
IsFile(fsys, p) ==
    LET r == Resolve(fsys, p)
    IN  r # ELoop /\ Exists(fsys, r) /\ fsys[r].kind = "file"

\* str(full_path) + ".bak"
BakPath(full_path) ==
    IF full_path = <<>> THEN <<".bak">>
    ELSE Append(Parent(full_path), full_path[Len(full_path)] \o ".bak")

\* open(p, 'w'): where the data lands, following links; ok is FALSE when the
\* open fails (a directory, a missing parent directory, a link loop).
OpenForWrite(fsys, p) ==
    LET r == Resolve(fsys, p)
    IN  IF r = ELoop \/ r = <<>> THEN [ok |-> FALSE, path |-> <<>>]
        ELSE IF Exists(fsys, r)
             THEN [ok |-> fsys[r].kind = "file", path |-> r]
             ELSE [ok |-> Parent(r) = <<>> \/
                          (Exists(fsys, Parent(r)) /\ fsys[Parent(r)].kind = "dir"),
                   path |-> r]

\* open(p, 'r'): the bytes of the file that p leads to (p passed isfile)
ReadBytes(fsys, p) == fsys[Resolve(fsys, p)].data

WriteFile(fsys, p, data) ==
    [q \in DOMAIN fsys \cup {p} |-> IF q = p THEN File(data) ELSE fsys[q]]

---------------------------------------------------------------------------
(* Parameter values of an execute call: a string, None, a non-zero number, *)
(* or a key that is absent from the parameters map                         *)

Str(s) == [t |-> "str", v |-> s]
NoneVal == [t |-> "none", v |-> <<>>]

\* instance_id: Optional[str] = None.  Instance ids are plain strings in the
\* model; NoId stands for the default None.
NoId == "None"

\* str(uuid.uuid4()): a value that no earlier call of uuid4 has returned and
\* that no caller writes down by itself.  The model numbers the generated
\* ids in the order of their generation.
UuidOf(n) == "u" \o ToString(n)
Uuid4 == UuidOf(issued + 1)
IntVal == [t |-> "int", v |-> <<>>]
Missing == [t |-> "missing", v |-> <<>>]

\* dict.get(key, default)
Get(p, default) == IF p.t = "missing" THEN Str(default) ELSE p

\* Python truth value: "" and None are false, a non-zero number is true
Truthy(x) == (x.t = "str" /\ x.v # <<>>) \/ x.t = "int"

IsStr(x) == x.t = "str"

---------------------------------------------------------------------------
(* What a call returns *)

NoRet ==
    [tool |-> "none", op |-> "none", id |-> "", known |-> FALSE,
     raised |-> FALSE, reward |-> 0, err |-> "", filepath |-> <<>>,
     full |-> <<>>, io |-> {}, value |-> 0, ratio |-> <<0, 1>>, args |-> <<>>,
     pre |-> <<>>,
     lines |-> <<>>, truncated |-> FALSE, text |-> <<>>, success |-> FALSE,
     outcome |-> "", alive |-> {}, already |-> "", pending |-> <<>>,
     completed |-> <<>>, matches |-> <<>>, item_id |-> <<>>,
     terminate |-> FALSE, feedback |-> {}, score |-> 0, meta |-> {}, more |-> 0]

\* (ToolResponse(text=...), 0.0, {"error": e})
ErrorRet(tool, id, known, args, e, filepath, io) ==
    [NoRet EXCEPT !.tool = tool, !.op = "execute", !.id = id, !.known = known,
                  !.args = args, !.err = e, !.filepath = filepath, !.io = io]

\* an exception that leaves execute
RaisedRet(tool, id, known, args) ==
    [NoRet EXCEPT !.tool = tool, !.op = "execute", !.id = id, !.known = known,
                  !.args = args, !.raised = TRUE]

IoRec(kind, path) == [kind |-> kind, path |-> path]

---------------------------------------------------------------------------
(* FileEditTool *)

Idle ==
    [pc |-> "idle", id |-> "", known |-> FALSE, filepath |-> <<>>,
     full_path |-> <<>>, args |-> <<>>, content |-> <<>>,
     new_content |-> <<>>, pre |-> <<>>, io |-> {}]

\* create(instance_id): an existing record is kept
FileEditTool_create(instance_id) ==
    LET id == IF instance_id = NoId THEN Uuid4 ELSE instance_id IN
        /\ instance_id = NoId => issued < MaxUuids
        /\ issued' = IF instance_id = NoId THEN issued + 1 ELSE issued
        /\ frame.pc = "idle"
        /\ editInst' = IF id \in DOMAIN editInst THEN editInst
                       ELSE [j \in DOMAIN editInst \cup {id} |->
                                IF j = id THEN [edits_made |-> 0] ELSE editInst[j]]
        /\ ret' = [NoRet EXCEPT !.tool = "edit", !.op = "create", !.id = id,
                                !.known = id \in DOMAIN editInst,
                                !.args = <<instance_id>>]
        /\ UNCHANGED <<fs, cfgBackup, peer, readInst, frame, bashVars, todoVars, interVars>>

\* release(instance_id)
FileEditTool_release(id) ==
    /\ frame.pc = "idle"
    /\ editInst' = [j \in DOMAIN editInst \ {id} |-> editInst[j]]
    /\ ret' = [NoRet EXCEPT !.tool = "edit", !.op = "release", !.id = id,
                            !.known = id \in DOMAIN editInst]
    /\ UNCHANGED <<fs, cfgBackup, peer, readInst, frame, nonFileVars>>

\* calc_reward(instance_id): float(edits_made), 0.0 for an unknown id
FileEditTool_calc_reward(id) ==
    /\ frame.pc = "idle"
    /\ ret' = [NoRet EXCEPT !.tool = "edit", !.op = "calc_reward", !.id = id,
                            !.known = id \in DOMAIN editInst,
                            !.value = IF id \in DOMAIN editInst
                                      THEN editInst[id].edits_made ELSE 0]
    /\ UNCHANGED <<fs, cfgBackup, peer, editInst, readInst, frame, nonFileVars>>

\* execute, line 129: old_string in content
StringFound(content, old_string) == Contains(content, old_string)

\* execute, lines 101-133: the parameter checks, the path checks, the read
\* and the replacement.  status is "raise" (an exception leaves execute),
\* "reject" (an error result) or "go" (the writes follow).
EditCheck(fsys, pf, po, pn) ==
    LET fp == Get(pf, <<>>)
        old_string == Get(po, <<>>)
        new_string == Get(pn, <<>>)
        filepath == Strip(fp.v)
        safe == GetSafePath(fsys, filepath)
        full_path == safe.path
        raw == ReadBytes(fsys, full_path)
        content == TextRead(raw)
        rd == {IoRec("read", Resolve(fsys, full_path))}
        out(status, e, io) ==
            [status |-> status, err |-> e, filepath |-> filepath,
             full_path |-> IF status = "go" THEN full_path ELSE <<>>,
             content |-> IF status = "go" THEN content ELSE <<>>,
             new_content |-> IF status = "go"
                             THEN ReplaceFirst(content, old_string.v, new_string.v)
                             ELSE <<>>,
             pre |-> IF status = "go" THEN raw ELSE <<>>,
             io |-> io]
    IN  IF ~IsStr(fp) THEN [out("raise", "AttributeError", {}) EXCEPT !.filepath = <<>>]
        ELSE IF filepath = <<>> THEN out("reject", "missing_filepath", {})
        ELSE IF ~Truthy(old_string) THEN out("reject", "missing_old_string", {})
        ELSE IF ~safe.ok THEN out("reject", "invalid_path", {})
        ELSE IF ~IsFile(fsys, full_path) THEN out("reject", "file_not_found", {})
        ELSE IF Len(raw) > MaxFileSize THEN out("reject", "file_too_large", {})
        ELSE IF ~IsStr(old_string) THEN out("reject", "TypeError", rd)
        ELSE IF ~StringFound(content, old_string.v)
             THEN out("reject", "string_not_found", rd)
        ELSE IF ~IsStr(new_string) THEN out("reject", "TypeError", rd)
        ELSE out("go", "", rd)

\* execute that counts every attempt of a created instance, rejected or not
FileEditTool_executeCountsAttempts(id, pf, po, pn) ==
    LET c == EditCheck(fs, pf, po, pn)
        known == id \in DOMAIN editInst
    IN  /\ frame.pc = "idle"
        /\ known => editInst[id].edits_made < MaxEdits
        /\ c.status = "go" => Len(c.new_content) <= MaxLen + 1
        /\ IF c.status = "go"
           THEN /\ frame' = [pc |-> IF cfgBackup THEN "backup" ELSE "write",
                             id |-> id, known |-> known, filepath |-> c.filepath,
                             full_path |-> c.full_path, args |-> <<pf, po, pn>>,
                             content |-> c.content,
                             new_content |-> c.new_content, pre |-> c.pre,
                             io |-> c.io]
                /\ UNCHANGED <<ret, editInst>>
           ELSE /\ ret' = IF c.status = "raise"
                          THEN RaisedRet("edit", id, known, <<pf, po, pn>>)
                          ELSE ErrorRet("edit", id, known, <<pf, po, pn>>, c.err,
                                        c.filepath, c.io)
                /\ editInst' = IF known THEN [editInst EXCEPT ![id].edits_made = @ + 1]
                               ELSE editInst
                /\ UNCHANGED frame
        /\ UNCHANGED <<fs, cfgBackup, peer, readInst, nonFileVars>>

\* execute up to the first write
FileEditTool_execute(id, pf, po, pn) ==
    LET c == EditCheck(fs, pf, po, pn)
        known == id \in DOMAIN editInst
    IN  /\ frame.pc = "idle"
        /\ known => editInst[id].edits_made < MaxEdits
        /\ c.status = "go" => Len(c.new_content) <= MaxLen + 1
        /\ IF c.status = "go"
           THEN /\ frame' = [pc |-> IF cfgBackup THEN "backup" ELSE "write",
                             id |-> id, known |-> known, filepath |-> c.filepath,
                             full_path |-> c.full_path, args |-> <<pf, po, pn>>,
                             content |-> c.content,
                             new_content |-> c.new_content, pre |-> c.pre,
                             io |-> c.io]
                /\ UNCHANGED ret
           ELSE /\ ret' = IF c.status = "raise"
                          THEN RaisedRet("edit", id, known, <<pf, po, pn>>)
                          ELSE ErrorRet("edit", id, known, <<pf, po, pn>>, c.err,
                                        c.filepath, c.io)
                /\ UNCHANGED frame
        /\ UNCHANGED <<fs, cfgBackup, peer, editInst, readInst, nonFileVars>>

\* execute, lines 136-138: the backup is written
FileEditTool_backup ==
    LET w == OpenForWrite(fs, BakPath(frame.full_path))
    IN  /\ frame.pc = "backup"
        /\ IF w.ok
           THEN /\ fs' = WriteFile(fs, w.path, TextWrite(frame.content))
                /\ frame' = [frame EXCEPT !.pc = "write",
                                          !.io = @ \cup {IoRec("backup", w.path)}]
                /\ UNCHANGED ret
           ELSE /\ ret' = ErrorRet("edit", frame.id, frame.known, frame.args,
                                   "OSError", frame.filepath, frame.io)
                /\ frame' = Idle
                /\ UNCHANGED fs
        /\ UNCHANGED <<cfgBackup, peer, editInst, readInst, nonFileVars>>

\* the overwrite with the replacement made in the content that the file
\* holds at the time of the write
FileEditTool_overwriteReread ==
    LET w == OpenForWrite(fs, frame.full_path)
        id == frame.id
    IN  /\ frame.pc = "write"
        /\ IF w.ok
           THEN /\ fs' = WriteFile(fs, w.path,
                                TextWrite(ReplaceFirst(TextRead(ReadBytes(fs, frame.full_path)),
                                                       frame.args[2].v, frame.args[3].v)))
                /\ editInst' = IF id \in DOMAIN editInst
                               THEN [editInst EXCEPT ![id].edits_made = @ + 1]
                               ELSE editInst
                /\ ret' = [NoRet EXCEPT !.tool = "edit", !.op = "execute", !.id = id,
                                        !.known = frame.known, !.reward = 10,
                                        !.args = frame.args, !.pre = frame.pre,
                                        !.filepath = frame.filepath,
                                        !.full = frame.full_path,
                                        !.io = frame.io \cup {IoRec("write", w.path)}]
           ELSE /\ ret' = ErrorRet("edit", id, frame.known, frame.args, "OSError",
                                   frame.filepath, frame.io)
                /\ UNCHANGED <<fs, editInst>>
        /\ frame' = Idle
        /\ UNCHANGED <<cfgBackup, peer, readInst, nonFileVars>>

\* execute, lines 141-152: the file is overwritten, the edit is counted and
\* the success result is returned
FileEditTool_overwrite ==
    LET w == OpenForWrite(fs, frame.full_path)
        id == frame.id
    IN  /\ frame.pc = "write"
        /\ IF w.ok
           THEN /\ fs' = WriteFile(fs, w.path, TextWrite(frame.new_content))
                /\ editInst' = IF id \in DOMAIN editInst
                               THEN [editInst EXCEPT ![id].edits_made = @ + 1]
                               ELSE editInst
                /\ ret' = [NoRet EXCEPT !.tool = "edit", !.op = "execute", !.id = id,
                                        !.known = frame.known, !.reward = 10,
                                        !.args = frame.args, !.pre = frame.pre,
                                        !.filepath = frame.filepath,
                                        !.full = frame.full_path,
                                        !.io = frame.io \cup {IoRec("write", w.path)}]
           ELSE /\ ret' = ErrorRet("edit", id, frame.known, frame.args, "OSError",
                                   frame.filepath, frame.io)
                /\ UNCHANGED <<fs, editInst>>
        /\ frame' = Idle
        /\ UNCHANGED <<cfgBackup, peer, readInst, nonFileVars>>

---------------------------------------------------------------------------
(* FileReaderTool *)

\* the value of the optional num_lines parameter
Num(n) == [t |-> "int", n |-> n]
NoNum == [t |-> "none", n |-> 0]

\* the lines of a text, as iterating over the open file yields them, each
\* without its line end
RECURSIVE SplitLines(_, _)
SplitLines(text, cur) ==
    IF text = <<>> THEN (IF cur = <<>> THEN <<>> ELSE <<cur>>)
    ELSE IF Head(text) = "LF" THEN <<cur>> \o SplitLines(Tail(text), <<>>)
    ELSE SplitLines(Tail(text), Append(cur, Head(text)))

Min(a, b) == IF a <= b THEN a ELSE b

\* _read_file_content(full_path, num_lines): (lines, lines_read, truncated)
ReadFileContent(fsys, full_path, num_lines) ==
    LET all == SplitLines(TextRead(ReadBytes(fsys, full_path)), <<>>)
        requested == IF num_lines.t = "int" /\ num_lines.n # 0
                     THEN num_lines.n ELSE MaxLines
        effective_limit == Min(requested, MaxLines)
        lines_read == IF effective_limit <= 0 THEN 0 ELSE Min(Len(all), effective_limit)
        first_pass == Len(all) > lines_read
        second_pass == /\ num_lines.t = "int" /\ num_lines.n # 0
                       /\ lines_read = num_lines.n
                       /\ Len(all) > num_lines.n
    IN  [lines |-> SubSeq(all, 1, lines_read), lines_read |-> lines_read,
         truncated |-> first_pass \/ second_pass]

FileReaderTool_create(instance_id) ==
    LET id == IF instance_id = NoId THEN Uuid4 ELSE instance_id IN
        /\ instance_id = NoId => issued < MaxUuids
        /\ issued' = IF instance_id = NoId THEN issued + 1 ELSE issued
        /\ frame.pc = "idle"
        /\ readInst' = IF id \in DOMAIN readInst THEN readInst
                       ELSE [j \in DOMAIN readInst \cup {id} |->
                                IF j = id
                                THEN [files_read |-> <<>>, total_lines_read |-> 0,
                                      successful_reads |-> 0]
                                ELSE readInst[j]]
        /\ ret' = [NoRet EXCEPT !.tool = "read", !.op = "create", !.id = id,
                                !.known = id \in DOMAIN readInst,
                                !.args = <<instance_id>>]
        /\ UNCHANGED <<fs, cfgBackup, peer, editInst, frame, bashVars, todoVars, interVars>>

FileReaderTool_release(id) ==
    /\ frame.pc = "idle"
    /\ readInst' = [j \in DOMAIN readInst \ {id} |-> readInst[j]]
    /\ ret' = [NoRet EXCEPT !.tool = "read", !.op = "release", !.id = id,
                            !.known = id \in DOMAIN readInst]
    /\ UNCHANGED <<fs, cfgBackup, peer, editInst, frame, nonFileVars>>

\* calc_reward(instance_id): float(successful_reads), 0.0 for an unknown id
FileReaderTool_calc_reward(id) ==
    /\ frame.pc = "idle"
    /\ ret' = [NoRet EXCEPT !.tool = "read", !.op = "calc_reward", !.id = id,
                            !.known = id \in DOMAIN readInst,
                            !.value = IF id \in DOMAIN readInst
                                      THEN readInst[id].successful_reads ELSE 0]
    /\ UNCHANGED <<fs, cfgBackup, peer, editInst, readInst, frame, nonFileVars>>

\* execute(instance_id, {filepath, num_lines}); allowed_extensions is empty
\* (every extension is allowed)
FileReaderTool_execute(id, pf, pnum) ==
    LET fp == Get(pf, <<>>)
        filepath == Strip(fp.v)
        safe == GetSafePath(fs, filepath)
        full_path == safe.path
        known == id \in DOMAIN readInst
        args == <<pf, pnum>>
        r == ReadFileContent(fs, full_path, pnum)
        io == {IoRec("read", Resolve(fs, full_path))}
    IN  /\ frame.pc = "idle"
        /\ known => readInst[id].successful_reads < MaxReads
        /\ IF ~IsStr(fp) THEN
               /\ ret' = RaisedRet("read", id, known, args)
               /\ UNCHANGED readInst
           ELSE IF filepath = <<>> THEN
               /\ ret' = ErrorRet("read", id, known, args, "missing_filepath", filepath, {})
               /\ UNCHANGED readInst
           ELSE IF ~safe.ok THEN
               /\ ret' = ErrorRet("read", id, known, args, "invalid_path", filepath, {})
               /\ UNCHANGED readInst
           ELSE IF ~IsFile(fs, full_path) THEN
               /\ ret' = ErrorRet("read", id, known, args, "file_not_found", filepath, {})
               /\ UNCHANGED readInst
           ELSE IF Len(ReadBytes(fs, full_path)) > ReaderMaxFileSize THEN
               /\ ret' = ErrorRet("read", id, known, args, "file_too_large", filepath, {})
               /\ UNCHANGED readInst
           ELSE
               /\ readInst' =
                     IF known
                     THEN [readInst EXCEPT
                              ![id].files_read = Append(@, filepath),
                              ![id].total_lines_read = @ + r.lines_read,
                              ![id].successful_reads = @ + 1]
                     ELSE readInst
               /\ ret' = [NoRet EXCEPT !.tool = "read", !.op = "execute", !.id = id,
                                       !.known = known, !.reward = 10, !.args = args,
                                       !.filepath = filepath, !.full = full_path,
                                       !.io = io, !.lines = r.lines,
                                       !.value = r.lines_read,
                                       !.truncated = r.truncated]
        /\ UNCHANGED <<fs, cfgBackup, peer, editInst, frame, nonFileVars>>

---------------------------------------------------------------------------
(* BashTool.  A text is a sequence of chunks, each a piece of text with its *)
(* length in characters.                                                   *)

Chunk(s, n) == [s |-> s, n |-> n]

RECURSIVE TextLen(_)
TextLen(t) == IF t = <<>> THEN 0 ELSE Head(t).n + TextLen(Tail(t))

\* Python: t[:n]
RECURSIVE Take(_, _)
Take(t, n) ==
    IF t = <<>> \/ n <= 0 THEN <<>>
    ELSE IF Head(t).n <= n THEN <<Head(t)>> \o Take(Tail(t), n - Head(t).n)
    ELSE <<Chunk(Head(t).s, n)>>

Pwd == Chunk("/workspace/hyperswitch", 22)       \* self.verl_pwd
ErrorColon == <<Chunk("Error", 5), Chunk(":", 1)>>

\* Python: result.startswith("Error:")
StartsWithError(result) == IsPrefix(ErrorColon, result)

\* bytes.decode().strip() of an output whose white space is the chunk " "
StripText(t) ==
    LET isSpace(c) == c.s = " "
        first == {i \in 1..Len(t) : ~isSpace(t[i])}
    IN  IF first = {} THEN <<>>
        ELSE SubSeq(t, CHOOSE i \in first : \A j \in first : i <= j,
                       CHOOSE i \in first : \A j \in first : i >= j)

\* _execute_bash_command, lines 177-193: the output of a process that ended
Output(returncode, stdout, stderr) ==
    LET stdout_str == StripText(stdout)
        stderr_str == StripText(stderr)
        rc == Chunk("rc", 1)
    IN  IF returncode = 0
        THEN IF stdout_str # <<>> THEN stdout_str
             ELSE <<Chunk("Command executed successfully in ", 33), Pwd>>
        ELSE (IF stderr_str # <<>>
              THEN <<Chunk("Error", 5), Chunk(" (exit code ", 12), rc,
                     Chunk("): ", 3)>> \o stderr_str
              ELSE <<Chunk("Command failed with exit code ", 30), rc>>)
             \o (IF stdout_str # <<>>
                 THEN <<Chunk("\nStdout: ", 9)>> \o stdout_str ELSE <<>>)

ExecutedIn == <<Chunk("\n[Executed in: ", 15), Pwd, Chunk("]", 1)>>
Truncated == <<Chunk("\n... (output truncated)", 23)>>

\* lines 196-204 with the working directory added up to len(output) <= 500
FormatOutputUpToThreshold(returncode, stdout, stderr) ==
    LET base == Output(returncode, stdout, stderr)
        context == IF TextLen(base) <= ContextBelow THEN base \o ExecutedIn ELSE base
    IN  IF TextLen(context) > MaxOutputLength
        THEN Take(context, MaxOutputLength) \o Truncated
        ELSE context

\* _execute_bash_command, lines 177-204: the text for a process that ended
FormatOutput(returncode, stdout, stderr) ==
    LET base == Output(returncode, stdout, stderr)
        context == IF TextLen(base) < ContextBelow THEN base \o ExecutedIn ELSE base
    IN  IF TextLen(context) > MaxOutputLength
        THEN Take(context, MaxOutputLength) \o Truncated
        ELSE context

\* line 210
TimeoutText ==
    ErrorColon \o <<Chunk(" Command timed out after ", 25), Chunk("timeout", 2),
                    Chunk(" seconds in ", 12), Pwd>>

\* line 213
SpawnErrorText ==
    <<Chunk("Error", 5), Chunk(" executing command in ", 22), Pwd, Chunk(": ", 2),
      Chunk("str(e)", 20)>>

BIdle ==
    [pc |-> "idle", id |-> "", known |-> FALSE, command |-> NoneVal,
     timeout |-> Missing]

\* a live process: the shell of a call or something the shell started, of
\* the call in progress or of a call that has returned
Proc(role, call) == [role |-> role, call |-> call]

\* printf of n characters to stdout, ended by exit code 0 or 1, or to stderr
\* and ended by exit code 1
PrintfCommand(kind, n) ==
    CASE kind = "out" -> <<"printf", ToString(n)>>
      [] kind = "out1" -> <<"printf", ToString(n), ";", "false">>
      [] kind = "err1" -> <<"printf", ToString(n), ">&2", ";", "false">>

\* the lengths that put the output of a printf command next to the two
\* thresholds: 21 and 40 characters are the lengths of the texts that
\* lines 187-193 put around stderr and stdout
OutputSizes(kind) ==
    {b - (CASE kind = "out" -> 0 [] kind = "err1" -> 21 [] kind = "out1" -> 40) :
        b \in {ContextBelow - 1, ContextBelow, MaxOutputLength, MaxOutputLength + 1}}

PrintfKinds == {"out", "out1", "err1"}

\* what the shell does with a command line: its exit code, what it writes,
\* whether it outlives the timeout, and whether it starts further processes
Program(command) ==
    LET P(rc, out, err, long, forks) ==
            [rc |-> rc, out |-> out, err |-> err, long |-> long, forks |-> forks]
        x(n) == <<Chunk("x", n)>>
    IN  CASE command = <<"echo">> -> P(0, x(3) \o <<Chunk(" ", 1)>>, <<>>, FALSE, FALSE)
          [] command = <<"echo", "Error:">> -> P(0, ErrorColon \o x(3), <<>>, FALSE, FALSE)
          [] command = <<"yes", "|", "head">> -> P(0, x(700), <<>>, FALSE, TRUE)
          [] command = <<"false">> -> P(1, <<>>, <<>>, FALSE, FALSE)
          [] command = <<"ls", "nofile">> -> P(1, <<>>, x(9), FALSE, FALSE)
          [] command = <<"echo", ";", "false">> -> P(1, x(3), <<>>, FALSE, FALSE)
          [] command = <<"sleep">> -> P(0, <<>>, <<>>, TRUE, FALSE)
          [] command = <<"sleep", ";", "true">> -> P(0, <<>>, <<>>, TRUE, TRUE)
          [] \E n \in OutputSizes("out") : command = PrintfCommand("out", n) ->
                P(0, x(CHOOSE n \in OutputSizes("out") : command = PrintfCommand("out", n)),
                  <<>>, FALSE, FALSE)
          [] \E n \in OutputSizes("out1") : command = PrintfCommand("out1", n) ->
                P(1, x(CHOOSE n \in OutputSizes("out1") : command = PrintfCommand("out1", n)),
                  <<>>, FALSE, FALSE)
          [] \E n \in OutputSizes("err1") : command = PrintfCommand("err1", n) ->
                P(1, <<>>,
                  x(CHOOSE n \in OutputSizes("err1") : command = PrintfCommand("err1", n)),
                  FALSE, FALSE)
          [] OTHER -> P(0, <<>>, <<>>, FALSE, FALSE)

\* __init__: the configuration, no instance, nothing running
BashConstructed(allowed) ==
    /\ cfgAllowed = allowed
    /\ bashInst = <<>>
    /\ procs = {}
    /\ bframe = BIdle

\* a create that stores a new record whether or not the id has one
BashTool_createAnew(instance_id) ==
    LET id == IF instance_id = NoId THEN Uuid4 ELSE instance_id IN
        /\ instance_id = NoId => issued < MaxUuids
        /\ issued' = IF instance_id = NoId THEN issued + 1 ELSE issued
        /\ bashInst' = [j \in DOMAIN bashInst \cup {id} |->
                            IF j = id
                            THEN [commands_executed |-> <<>>, outputs |-> <<>>,
                                  total_reward |-> 0, successful_commands |-> 0]
                            ELSE bashInst[j]]
        /\ ret' = [NoRet EXCEPT !.tool = "bash", !.op = "create", !.id = id,
                                !.known = id \in DOMAIN bashInst,
                                !.args = <<instance_id>>]
        /\ UNCHANGED <<cfgAllowed, procs, bframe, fileVars, todoVars, interVars>>

BashTool_create(instance_id) ==
    LET id == IF instance_id = NoId THEN Uuid4 ELSE instance_id IN
        /\ instance_id = NoId => issued < MaxUuids
        /\ issued' = IF instance_id = NoId THEN issued + 1 ELSE issued
        /\ bashInst' = IF id \in DOMAIN bashInst THEN bashInst
                       ELSE [j \in DOMAIN bashInst \cup {id} |->
                                IF j = id
                                THEN [commands_executed |-> <<>>, outputs |-> <<>>,
                                      total_reward |-> 0, successful_commands |-> 0]
                                ELSE bashInst[j]]
        /\ ret' = [NoRet EXCEPT !.tool = "bash", !.op = "create", !.id = id,
                                !.known = id \in DOMAIN bashInst,
                                !.args = <<instance_id>>]
        /\ UNCHANGED <<cfgAllowed, procs, bframe, fileVars, todoVars, interVars>>

BashTool_release(id) ==
    /\ bashInst' = [j \in DOMAIN bashInst \ {id} |-> bashInst[j]]
    /\ ret' = [NoRet EXCEPT !.tool = "bash", !.op = "release", !.id = id,
                            !.known = id \in DOMAIN bashInst]
    /\ UNCHANGED <<cfgAllowed, procs, bframe, nonBashVars>>

\* calc_reward: successful_commands / len(commands_executed), as the pair
\* <<numerator, denominator>>; <<0, 1>> is 0.0
BashTool_calc_reward(id) ==
    /\ ret' = [NoRet EXCEPT !.tool = "bash", !.op = "calc_reward", !.id = id,
                            !.known = id \in DOMAIN bashInst,
                            !.ratio =
                                IF id \notin DOMAIN bashInst
                                       \/ bashInst[id].commands_executed = <<>>
                                THEN <<0, 1>>
                                ELSE <<bashInst[id].successful_commands,
                                       Len(bashInst[id].commands_executed)>>]
    /\ UNCHANGED <<bashVars, nonBashVars>>

\* Python: command.strip().startswith(allowed_cmd) for some allowed_cmd
CommandAllowed(allowed, command) ==
    \E allowed_cmd \in allowed : StartsWith(Strip(command), allowed_cmd)

\* an execute whose history lists are shared by all instances: the command
\* and its result are appended to every record
BashFinishShared(id, known, command, timeout, result, outcome, alive) ==
    LET reward == IF StartsWithError(result) THEN 0 ELSE 10
    IN  /\ bashInst' =
              IF id \in DOMAIN bashInst
              THEN [j \in DOMAIN bashInst |->
                       [bashInst[j] EXCEPT
                           !.commands_executed = Append(@, command),
                           !.outputs = Append(@, result),
                           !.successful_commands =
                               IF j = id /\ reward = 10 THEN @ + 1 ELSE @,
                           !.total_reward = IF j = id THEN @ + reward ELSE @]]
              ELSE bashInst
        /\ ret' = [NoRet EXCEPT !.tool = "bash", !.op = "execute", !.id = id,
                                !.known = known, !.reward = reward,
                                !.args = <<command, timeout>>, !.text = result,
                                !.success = reward > 0, !.outcome = outcome,
                                !.alive = alive]

\* lines 129-153 with the record fetched by setdefault: a missing record
\* is stored anew
BashFinishRecreates(id, known, command, timeout, result, outcome, alive) ==
    LET reward == IF StartsWithError(result) THEN 0 ELSE 10
        success == IF reward = 10 THEN 1 ELSE 0
    IN  /\ bashInst' =
              [j \in DOMAIN bashInst \cup {id} |->
                  IF j # id THEN bashInst[j]
                  ELSE IF id \in DOMAIN bashInst
                  THEN [bashInst[id] EXCEPT
                           !.commands_executed = Append(@, command),
                           !.outputs = Append(@, result),
                           !.successful_commands = @ + success,
                           !.total_reward = @ + reward]
                  ELSE [commands_executed |-> <<command>>, outputs |-> <<result>>,
                        total_reward |-> reward, successful_commands |-> success]]
        /\ ret' = [NoRet EXCEPT !.tool = "bash", !.op = "execute", !.id = id,
                                !.known = known, !.reward = reward,
                                !.args = <<command, timeout>>, !.text = result,
                                !.success = reward > 0, !.outcome = outcome,
                                !.alive = alive]

\* execute, lines 129-153: the history is updated and the triple returned
BashFinish(id, known, command, timeout, result, outcome, alive) ==
    LET reward == IF StartsWithError(result) THEN 0 ELSE 10
    IN  /\ bashInst' =
              IF id \in DOMAIN bashInst
              THEN [bashInst EXCEPT
                       ![id].commands_executed = Append(@, command),
                       ![id].outputs = Append(@, result),
                       ![id].successful_commands = @ + (IF reward = 10 THEN 1 ELSE 0),
                       ![id].total_reward = @ + reward]
              ELSE bashInst
        /\ ret' = [NoRet EXCEPT !.tool = "bash", !.op = "execute", !.id = id,
                                !.known = known, !.reward = reward,
                                !.args = <<command, timeout>>, !.text = result,
                                !.success = reward > 0, !.outcome = outcome,
                                !.alive = alive]

\* execute up to the point where it waits for the process: the parameter
\* checks, the allow-list, and create_subprocess_shell.  cmd is the command
\* parameter; spawned tells whether the operating system starts the shell.
BashTool_execute(id, cmd, timeout, spawned) ==
    LET command == Get(cmd, <<>>)
        known == id \in DOMAIN bashInst
    IN  /\ bframe.pc = "idle"
        /\ known => Len(bashInst[id].commands_executed) < MaxCommands
        /\ IF ~Truthy(command) THEN
               /\ ret' = ErrorRet("bash", id, known, <<cmd, timeout>>, "missing_command",
                                  <<>>, {})
               /\ UNCHANGED <<bashInst, procs, bframe>>
           ELSE IF cfgAllowed # {} /\ ~IsStr(command) THEN
               /\ ret' = RaisedRet("bash", id, known, <<cmd, timeout>>)
               /\ UNCHANGED <<bashInst, procs, bframe>>
           ELSE IF cfgAllowed # {} /\ ~CommandAllowed(cfgAllowed, command.v) THEN
               /\ ret' = ErrorRet("bash", id, known, <<cmd, timeout>>, "forbidden_command",
                                  <<>>, {})
               /\ UNCHANGED <<bashInst, procs, bframe>>
           ELSE IF ~IsStr(command) \/ ~spawned THEN
               /\ BashFinish(id, known, cmd, timeout, SpawnErrorText, "nospawn", {})
               /\ UNCHANGED <<procs, bframe>>
           ELSE
               /\ procs' = procs \cup {Proc("shell", "running")}
               /\ bframe' = [pc |-> "waiting", id |-> id, known |-> known,
                             command |-> cmd, timeout |-> timeout]
               /\ UNCHANGED <<bashInst, ret>>
        /\ UNCHANGED <<cfgAllowed, nonBashVars>>

\* the shell of the call in progress starts a process of its own
ShellStartsChild ==
    /\ bframe.pc = "waiting"
    /\ Program(bframe.command.v).forks
    /\ Proc("shell", "running") \in procs
    /\ procs' = procs \cup {Proc("child", "running")}
    /\ UNCHANGED <<cfgAllowed, bashInst, bframe, ret, nonBashVars>>

\* lines 174-204: the shell and what it started end within the timeout,
\* communicate() returns, execute records and returns the formatted output
BashTool_execute_completed ==
    LET prog == Program(bframe.command.v)
    IN  /\ bframe.pc = "waiting"
        /\ ~prog.long
        /\ procs' = {q \in procs : q.call # "running"}
        /\ BashFinish(bframe.id, bframe.known, bframe.command, bframe.timeout,
                      FormatOutput(prog.rc, prog.out, prog.err),
                      IF prog.rc = 0 THEN "exit0" ELSE "exitN", {})
        /\ bframe' = BIdle
        /\ UNCHANGED <<cfgAllowed, nonBashVars>>

\* lines 206-210: the timeout expires; process.kill() signals the shell,
\* process.wait() reaps it; what the shell started is not signalled
BashTool_execute_timeout ==
    /\ bframe.pc = "waiting"
    /\ Program(bframe.command.v).long
    /\ procs' = {IF q.call = "running" THEN Proc(q.role, "returned") ELSE q :
                    q \in procs \ {Proc("shell", "running")}}
    /\ BashFinish(bframe.id, bframe.known, bframe.command, bframe.timeout,
                  TimeoutText, "timeout",
                  {q.role : q \in {r \in procs : r.call = "running"}}
                      \ {"shell"})
    /\ bframe' = BIdle
    /\ UNCHANGED <<cfgAllowed, nonBashVars>>

\* a process left behind by a returned call ends by itself
OrphanExits ==
    /\ \E q \in procs : q.call = "returned" /\ procs' = procs \ {q}
    /\ UNCHANGED <<cfgAllowed, bashInst, bframe, ret, nonBashVars>>


---------------------------------------------------------------------------
(* TodoListTool.  An instance's "todos" dict is the sequence of its items  *)
(* in insertion order; an item id is the string str(next_id).              *)

NoTime == 0          \* completed_at = None; the clock starts at 1

\* TodoItem.__init__
TodoItem(id, text, priority, created_at) ==
    [id |-> id, text |-> text, completed |-> FALSE, priority |-> priority,
     created_at |-> created_at, completed_at |-> NoTime]

\* TodoItem.mark_completed
mark_completed(item, t) == [item EXCEPT !.completed = TRUE, !.completed_at = t]

\* mark_incomplete without the assignment to completed_at
mark_incompleteKeepsTime(item) == [item EXCEPT !.completed = FALSE]

\* TodoItem.mark_incomplete
mark_incomplete(item) == [item EXCEPT !.completed = FALSE, !.completed_at = NoTime]

\* str(n)
IdStr(n) == <<ToString(n)>>

\* __init__
TodoConstructed ==
    /\ cfgMaxItems = MaxItems
    /\ todoInst = <<>>
    /\ now = 1
    /\ added = <<>>

\* the parameters map of a ledger call
Params(action, item_text, item_id, priority, search_query) ==
    [action |-> action, item_text |-> item_text, item_id |-> item_id,
     priority |-> priority, search_query |-> search_query]

\* the index in todos of the item with the given id, 0 when there is none
IndexOf(todos, item_id) ==
    IF \E k \in 1..Len(todos) : todos[k].id = item_id
    THEN CHOOSE k \in 1..Len(todos) : todos[k].id = item_id
    ELSE 0

RemoveAt(seq, k) == SubSeq(seq, 1, k - 1) \o SubSeq(seq, k + 1, Len(seq))

\* list.sort(key=...) where keys[i] is the key of seq[i]: ascending in the
\* key, equal keys keep their order
SortByKey(seq, keys) ==
    LET Insert(sorted, i) ==
            LET after == {k \in 1..Len(sorted) : keys[sorted[k]] > keys[i]}
                at == IF after = {} THEN Len(sorted) + 1
                      ELSE CHOOSE k \in after : \A j \in after : k <= j
            IN  SubSeq(sorted, 1, at - 1) \o <<i>> \o SubSeq(sorted, at, Len(sorted))
        F[i \in 0..Len(seq)] == IF i = 0 THEN <<>> ELSE Insert(F[i - 1], i)
    IN  [k \in 1..Len(seq) |-> seq[F[Len(seq)][k]]]

\* str.lower() on the tokens of an item text
Lower(text) == [i \in 1..Len(text) |-> IF text[i] = "X" THEN "x"
                                      ELSE IF text[i] = "Y" THEN "y" ELSE text[i]]

\* priority_order.get(priority, 1)
PriorityOrder(priority) ==
    IF priority = Str(<<"high">>) THEN 0
    ELSE IF priority = Str(<<"low">>) THEN 2
    ELSE 1

\* what a ledger operation yields: the instance record after it, and the
\* returned triple
Outcome(todo_list, reward, err) ==
    [list |-> todo_list, reward |-> reward, err |-> err, already |-> "",
     pending |-> <<>>, completed |-> <<>>, matches |-> <<>>, item_id |-> <<>>,
     more |-> 0]

\* execute, lines 160-163: an exception inside the try block
Caught(todo_list) == Outcome(todo_list, 0, "exception")

\* _add_item with the id taken from the number of items held
AddItemByCount(todo_list, p, t) ==
    LET raw == Get(p.item_text, <<>>)
        item_text == Strip(raw.v)
        priority == IF p.priority.t = "missing" THEN Str(<<"medium">>) ELSE p.priority
        item_id == IdStr(Len(todo_list.todos) + 1)
    IN  IF ~IsStr(raw) THEN Caught(todo_list)
        ELSE IF item_text = <<>> THEN Outcome(todo_list, 0, "missing_item_text")
        ELSE IF Len(todo_list.todos) >= cfgMaxItems
        THEN Outcome(todo_list, 0, "max_items_reached")
        ELSE [Outcome([todo_list EXCEPT
                          !.todos = Append(@, TodoItem(item_id, item_text, priority, t)),
                          !.next_id = @ + 1,
                          !.total_added = @ + 1], 10, "")
                 EXCEPT !.item_id = item_id]

\* _add_item with the capacity test len(todos) > max_items
AddItemPastCapacity(todo_list, p, t) ==
    LET raw == Get(p.item_text, <<>>)
        item_text == Strip(raw.v)
        priority == IF p.priority.t = "missing" THEN Str(<<"medium">>) ELSE p.priority
        item_id == IdStr(todo_list.next_id)
    IN  IF ~IsStr(raw) THEN Caught(todo_list)
        ELSE IF item_text = <<>> THEN Outcome(todo_list, 0, "missing_item_text")
        ELSE IF Len(todo_list.todos) > cfgMaxItems
        THEN Outcome(todo_list, 0, "max_items_reached")
        ELSE [Outcome([todo_list EXCEPT
                          !.todos = Append(@, TodoItem(item_id, item_text, priority, t)),
                          !.next_id = @ + 1,
                          !.total_added = @ + 1], 10, "")
                 EXCEPT !.item_id = item_id]

\* _add_item
AddItem(todo_list, p, t) ==
    LET raw == Get(p.item_text, <<>>)
        item_text == Strip(raw.v)
        priority == IF p.priority.t = "missing" THEN Str(<<"medium">>) ELSE p.priority
        item_id == IdStr(todo_list.next_id)
    IN  IF ~IsStr(raw) THEN Caught(todo_list)
        ELSE IF item_text = <<>> THEN Outcome(todo_list, 0, "missing_item_text")
        ELSE IF Len(todo_list.todos) >= cfgMaxItems
        THEN Outcome(todo_list, 0, "max_items_reached")
        ELSE [Outcome([todo_list EXCEPT
                          !.todos = Append(@, TodoItem(item_id, item_text, priority, t)),
                          !.next_id = @ + 1,
                          !.total_added = @ + 1], 10, "")
                 EXCEPT !.item_id = item_id]

\* _complete_item without the test of the completed flag
CompleteItemAgain(todo_list, p, t) ==
    LET raw == Get(p.item_id, <<>>)
        item_id == Strip(raw.v)
        k == IndexOf(todo_list.todos, item_id)
    IN  IF ~IsStr(raw) THEN Caught(todo_list)
        ELSE IF item_id = <<>> THEN Outcome(todo_list, 0, "missing_item_id")
        ELSE IF k = 0 THEN Outcome(todo_list, 0, "item_not_found")
        ELSE Outcome([todo_list EXCEPT
                         !.todos[k] = mark_completed(@, t),
                         !.total_completed = @ + 1], 10, "")

\* _complete_item
CompleteItem(todo_list, p, t) ==
    LET raw == Get(p.item_id, <<>>)
        item_id == Strip(raw.v)
        k == IndexOf(todo_list.todos, item_id)
    IN  IF ~IsStr(raw) THEN Caught(todo_list)
        ELSE IF item_id = <<>> THEN Outcome(todo_list, 0, "missing_item_id")
        ELSE IF k = 0 THEN Outcome(todo_list, 0, "item_not_found")
        ELSE IF todo_list.todos[k].completed
        THEN [Outcome(todo_list, 5, "") EXCEPT !.already = "already_completed"]
        ELSE Outcome([todo_list EXCEPT
                         !.todos[k] = mark_completed(@, t),
                         !.total_completed = @ + 1], 10, "")

\* _incomplete_item
IncompleteItem(todo_list, p) ==
    LET raw == Get(p.item_id, <<>>)
        item_id == Strip(raw.v)
        k == IndexOf(todo_list.todos, item_id)
    IN  IF ~IsStr(raw) THEN Caught(todo_list)
        ELSE IF item_id = <<>> THEN Outcome(todo_list, 0, "missing_item_id")
        ELSE IF k = 0 THEN Outcome(todo_list, 0, "item_not_found")
        ELSE IF ~todo_list.todos[k].completed
        THEN [Outcome(todo_list, 5, "") EXCEPT !.already = "already_incomplete"]
        ELSE Outcome([todo_list EXCEPT
                         !.todos[k] = mark_incomplete(@),
                         !.total_completed = @ - 1], 10, "")

\* _list_items with the completed items sorted without reverse=True
ListItemsOldestFirst(todo_list) ==
    LET todos == todo_list.todos
        IsDone(item) == item.completed
        IsOpen(item) == ~item.completed
        PendingKey(item) == PriorityOrder(item.priority) * (MaxTime + 2) + item.created_at
        DoneKey(item) ==
            IF item.completed_at # NoTime THEN item.completed_at ELSE item.created_at
        open == SelectSeq(todos, IsOpen)
        done == SelectSeq(todos, IsDone)
        incomplete_items == SortByKey(open, [i \in 1..Len(open) |-> PendingKey(open[i])])
        completed_items == SortByKey(done, [i \in 1..Len(done) |-> DoneKey(done[i])])
        shown == SubSeq(completed_items, 1, Min(ShownCompleted, Len(completed_items)))
    IN  [Outcome(todo_list, 10, "") EXCEPT
            !.pending = [i \in 1..Len(incomplete_items) |-> incomplete_items[i].id],
            !.completed = [i \in 1..Len(shown) |-> shown[i].id],
            !.more = Len(completed_items) - Len(shown)]

\* _list_items
ListItems(todo_list) ==
    LET todos == todo_list.todos
        IsDone(item) == item.completed
        IsOpen(item) == ~item.completed
        PendingKey(item) == PriorityOrder(item.priority) * (MaxTime + 2) + item.created_at
        DoneKey(item) ==
            0 - (IF item.completed_at # NoTime THEN item.completed_at
                 ELSE item.created_at)
        open == SelectSeq(todos, IsOpen)
        done == SelectSeq(todos, IsDone)
        incomplete_items == SortByKey(open, [i \in 1..Len(open) |-> PendingKey(open[i])])
        completed_items == SortByKey(done, [i \in 1..Len(done) |-> DoneKey(done[i])])
        shown == SubSeq(completed_items, 1, Min(ShownCompleted, Len(completed_items)))
    IN  [Outcome(todo_list, 10, "") EXCEPT
            !.pending = [i \in 1..Len(incomplete_items) |-> incomplete_items[i].id],
            !.completed = [i \in 1..Len(shown) |-> shown[i].id],
            !.more = Len(completed_items) - Len(shown)]

\* _remove_item without the update of the completed counter
RemoveItemKeepsCount(todo_list, p) ==
    LET raw == Get(p.item_id, <<>>)
        item_id == Strip(raw.v)
        k == IndexOf(todo_list.todos, item_id)
    IN  IF ~IsStr(raw) THEN Caught(todo_list)
        ELSE IF item_id = <<>> THEN Outcome(todo_list, 0, "missing_item_id")
        ELSE IF k = 0 THEN Outcome(todo_list, 0, "item_not_found")
        ELSE Outcome([todo_list EXCEPT !.todos = RemoveAt(@, k)], 10, "")

\* _remove_item
RemoveItem(todo_list, p) ==
    LET raw == Get(p.item_id, <<>>)
        item_id == Strip(raw.v)
        k == IndexOf(todo_list.todos, item_id)
    IN  IF ~IsStr(raw) THEN Caught(todo_list)
        ELSE IF item_id = <<>> THEN Outcome(todo_list, 0, "missing_item_id")
        ELSE IF k = 0 THEN Outcome(todo_list, 0, "item_not_found")
        ELSE Outcome([todo_list EXCEPT
                         !.todos = RemoveAt(@, k),
                         !.total_completed =
                             IF todo_list.todos[k].completed THEN @ - 1 ELSE @],
                     10, "")

\* _clear_list without the reset of the completed counter
ClearListKeepsCount(todo_list) ==
    Outcome([todo_list EXCEPT !.todos = <<>>], 10, "")

\* _clear_list
ClearList(todo_list) ==
    Outcome([todo_list EXCEPT !.todos = <<>>, !.total_completed = 0], 10, "")

\* _search_items
SearchItems(todo_list, p) ==
    LET raw == Get(p.search_query, <<>>)
        search_query == Lower(Strip(raw.v))
        Matches(item) == Contains(Lower(item.text), search_query)
        matching_items == SelectSeq(todo_list.todos, Matches)
    IN  IF ~IsStr(raw) THEN Caught(todo_list)
        ELSE IF search_query = <<>> THEN Outcome(todo_list, 0, "missing_search_query")
        ELSE [Outcome(todo_list, 10, "") EXCEPT
                 !.matches = [i \in 1..Len(matching_items) |-> matching_items[i].id]]

\* execute, lines 143-158: the dispatch on the action
Dispatch(todo_list, p, t) ==
    LET action == Get(p.action, <<>>)
    IN  IF action = Str(<<"add">>) THEN AddItem(todo_list, p, t)
        ELSE IF action = Str(<<"complete">>) THEN CompleteItem(todo_list, p, t)
        ELSE IF action = Str(<<"incomplete">>) THEN IncompleteItem(todo_list, p)
        ELSE IF action = Str(<<"list">>) THEN ListItems(todo_list)
        ELSE IF action = Str(<<"remove">>) THEN RemoveItem(todo_list, p)
        ELSE IF action = Str(<<"clear">>) THEN ClearList(todo_list)
        ELSE IF action = Str(<<"search">>) THEN SearchItems(todo_list, p)
        ELSE Outcome(todo_list, 0, "unknown_action")

TodoListTool_create(instance_id) ==
    LET id == IF instance_id = NoId THEN Uuid4 ELSE instance_id IN
        /\ instance_id = NoId => issued < MaxUuids
        /\ issued' = IF instance_id = NoId THEN issued + 1 ELSE issued
        /\ todoInst' = IF id \in DOMAIN todoInst THEN todoInst
                       ELSE [j \in DOMAIN todoInst \cup {id} |->
                                IF j = id
                                THEN [todos |-> <<>>, next_id |-> 1, total_added |-> 0,
                                      total_completed |-> 0]
                                ELSE todoInst[j]]
        /\ added' = IF id \in DOMAIN todoInst THEN added
                    ELSE [j \in DOMAIN added \cup {id} |-> IF j = id THEN 0 ELSE added[j]]
        /\ ret' = [NoRet EXCEPT !.tool = "todo", !.op = "create", !.id = id,
                                !.known = id \in DOMAIN todoInst,
                                !.args = <<instance_id>>]
        /\ UNCHANGED <<cfgMaxItems, now, fileVars, bashVars, interVars>>

\* a release that deletes the record without testing that it is there:
\* KeyError for an id without a record
TodoListTool_releaseUnchecked(id) ==
    /\ todoInst' = [j \in DOMAIN todoInst \ {id} |-> todoInst[j]]
    /\ added' = [j \in DOMAIN added \ {id} |-> added[j]]
    /\ ret' = [NoRet EXCEPT !.tool = "todo", !.op = "release", !.id = id,
                            !.known = id \in DOMAIN todoInst,
                            !.raised = id \notin DOMAIN todoInst]
    /\ UNCHANGED <<cfgMaxItems, now, nonTodoVars>>

TodoListTool_release(id) ==
    /\ todoInst' = [j \in DOMAIN todoInst \ {id} |-> todoInst[j]]
    /\ added' = [j \in DOMAIN added \ {id} |-> added[j]]
    /\ ret' = [NoRet EXCEPT !.tool = "todo", !.op = "release", !.id = id,
                            !.known = id \in DOMAIN todoInst]
    /\ UNCHANGED <<cfgMaxItems, now, nonTodoVars>>

\* calc_reward: total_completed / total_added as <<numerator, denominator>>
TodoListTool_calc_reward(id) ==
    /\ ret' = [NoRet EXCEPT !.tool = "todo", !.op = "calc_reward", !.id = id,
                            !.known = id \in DOMAIN todoInst,
                            !.ratio =
                                IF id \notin DOMAIN todoInst
                                       \/ todoInst[id].total_added = 0
                                THEN <<0, 1>>
                                ELSE <<todoInst[id].total_completed,
                                       todoInst[id].total_added>>]
    /\ UNCHANGED <<todoVars, nonTodoVars>>

\* execute at clock reading t
TodoListTool_execute(id, p, t) ==
    LET known == id \in DOMAIN todoInst
        r == Dispatch(todoInst[id], p, t)
    IN  /\ t \in {now, now + 1}
        /\ t <= MaxTime
        /\ (known /\ p.action = Str(<<"add">>)) => todoInst[id].next_id <= MaxAdds
        /\ now' = t
        /\ IF ~known THEN
               /\ ret' = ErrorRet("todo", id, known, p, "instance_not_found", <<>>, {})
               /\ UNCHANGED <<todoInst, added>>
           ELSE
               /\ todoInst' = [todoInst EXCEPT ![id] = r.list]
               /\ added' = [added EXCEPT
                               ![id] = IF Get(p.action, <<>>) = Str(<<"add">>)
                                          /\ r.reward = 10
                                       THEN @ + 1 ELSE @]
               /\ ret' = [NoRet EXCEPT !.tool = "todo", !.op = "execute", !.id = id,
                                       !.known = known, !.reward = r.reward,
                                       !.err = r.err, !.args = p,
                                       !.already = r.already, !.pending = r.pending,
                                       !.completed = r.completed,
                                       !.matches = r.matches,
                                       !.item_id = r.item_id, !.more = r.more]
        /\ UNCHANGED <<cfgMaxItems, nonTodoVars>>

---------------------------------------------------------------------------
(* RepoExplorationInteraction.  A message content is a text of chunks, one *)
(* per word.  tool_usage_score and completeness_score are held in thirds,  *)
(* analysis_quality_score in tenths, a returned score in 1/300.            *)

\* __init__
InterConstructed ==
    /\ interInst = <<>>
    /\ ended = {}

\* str.lower() of a word
LowerWord(w) ==
    CASE w = "TODO" -> "todo"
      [] w = "Read" -> "read"
      [] OTHER -> w

\* content.lower()
LowerText(content) ==
    [i \in 1..Len(content) |-> Chunk(LowerWord(content[i].s), content[i].n)]

\* the keywords of the rubrics that occur in a lower-case word
Substrings(w) ==
    CASE w = "todo" -> {"todo"}
      [] w = "tools" -> {"ls", "tool"}
      [] w = "read" -> {"read"}
      [] w = "execute" -> {"execute"}
      [] w = "analyze" -> {"analyze"}
      [] w = "structure" -> {"structure"}
      [] w = "summary" -> {"summary"}
      [] w = "purpose" -> {"purpose"}
      [] w = "verl" -> {"verl"}
      [] OTHER -> {}

\* any(keyword in content_lower for keyword in keywords)
AnyIn(keywords, content_lower) ==
    \E i \in 1..Len(content_lower) : Substrings(content_lower[i].s) \cap keywords # {}

\* True counts 1 in sum([...])
Bit(b) == IF b THEN 1 ELSE 0

\* _analyze_tool_usage with the flags assigned from this message alone
AnalyzeToolUsageThisTurn(instance, content) ==
    LET content_lower == LowerText(content)
        todo == AnyIn({"todo", "task", "plan", "step"}, content_lower)
        bash == AnyIn({"ls", "bash", "command", "execute"}, content_lower)
        file == AnyIn({"read", "file", "examine", "content"}, content_lower)
    IN  [instance EXCEPT !.has_used_todo = todo, !.has_used_bash = bash,
                         !.has_used_file_reader = file,
                         !.tool_usage_score = Bit(todo) + Bit(bash) + Bit(file)]

\* _analyze_tool_usage
AnalyzeToolUsage(instance, content) ==
    LET content_lower == LowerText(content)
        todo == instance.has_used_todo
                   \/ AnyIn({"todo", "task", "plan", "step"}, content_lower)
        bash == instance.has_used_bash
                   \/ AnyIn({"ls", "bash", "command", "execute"}, content_lower)
        file == instance.has_used_file_reader
                   \/ AnyIn({"read", "file", "examine", "content"}, content_lower)
    IN  [instance EXCEPT !.has_used_todo = todo, !.has_used_bash = bash,
                         !.has_used_file_reader = file,
                         !.tool_usage_score = Bit(todo) + Bit(bash) + Bit(file)]

\* _calculate_analysis_quality, in tenths
CalculateAnalysisQuality(response_lower, ground_truth) ==
    LET hit(keywords, tenths) == IF AnyIn(keywords, response_lower) THEN tenths ELSE 0
        score ==
            IF ground_truth = Str(<<"repository_overview_analysis">>)
            THEN hit({"structure", "architecture", "organize", "framework"}, 3)
                 + hit({"purpose", "goal", "function", "system"}, 3)
                 + hit({"component", "module", "tool", "directory"}, 2)
                 + hit({"verl", "reinforcement", "learning", "training"}, 2)
            ELSE IF ground_truth = Str(<<"tools_architecture_analysis">>)
            THEN hit({"basetool", "base_tool", "inherit", "abstract"}, 4)
                 + hit({"method", "async", "execute", "create"}, 3)
                 + hit({"schema", "config", "register", "load"}, 3)
            ELSE IF ground_truth = Str(<<"configuration_system_analysis">>)
            THEN hit({"yaml", "config", "parameter", "setting"}, 4)
                 + hit({"example", "template", "sample"}, 3)
                 + hit({"model", "batch", "learning", "optimizer"}, 3)
            ELSE hit({"analyze", "understand", "examine", "investigate"}, 5)
                 + hit({"pattern", "structure", "design", "implement"}, 3)
                 + hit({"conclusion", "summary", "insight", "finding"}, 2)
    IN  Min(score, 10)

\* the sum of the three sub-scores without their weights, in 1/300
BlendedScoreUnweighted(instance) ==
    100 * instance.tool_usage_score + 30 * instance.analysis_quality_score
        + 100 * instance.completeness_score

\* lines 217-223: 0.4 * tool_usage + 0.4 * analysis_quality + 0.2 *
\* completeness, capped at 1.0, in 1/300
BlendedScore(instance) ==
    Min(40 * instance.tool_usage_score + 12 * instance.analysis_quality_score
            + 20 * instance.completeness_score, 300)

\* _evaluate_completion: the record after it, the verdict and the feedback,
\* or the exception of line 160
EvaluateCompletion(instance, content) ==
    LET ground_truth == instance.ground_truth
        analysis_score == CalculateAnalysisQuality(LowerText(content), ground_truth)
        is_comprehensive == TextLen(content) >= MinAnalysisLength
        has_good_tool_usage == 100 * instance.tool_usage_score >= 201   \* >= 0.67
        has_good_analysis == 10 * analysis_score >= 67                   \* >= 0.67
        completeness == Bit(is_comprehensive) + Bit(has_good_tool_usage)
                            + Bit(has_good_analysis)
        after == [instance EXCEPT !.analysis_quality_score = analysis_score,
                                  !.completeness_score = completeness]
        hints == (IF ~instance.has_used_todo THEN {"use_todo"} ELSE {})
                 \cup (IF ~instance.has_used_bash THEN {"use_bash"} ELSE {})
                 \cup (IF ~instance.has_used_file_reader THEN {"use_read_file"} ELSE {})
                 \cup (IF TextLen(content) < MinAnalysisLength THEN {"more_detail"} ELSE {})
                 \cup (IF analysis_score < 5 THEN {"focus"} ELSE {})
        V(terminate, feedback, raised) ==
            [instance |-> after, terminate |-> terminate, feedback |-> feedback,
             raised |-> raised]
    IN  IF 10 * completeness >= 24                                       \* >= 0.8
        THEN V(TRUE, {"excellent"}, FALSE)
        ELSE IF instance.turn_count >= MaxTurns THEN V(TRUE, {"max_turns"}, FALSE)
        ELSE IF analysis_score < 5 /\ ~IsStr(ground_truth) THEN V(FALSE, {}, TRUE)
        ELSE V(FALSE, {"progress"} \cup hints, FALSE)

\* lines 73-78: the content of the latest assistant message, "" when there
\* is none
LatestContent(messages) ==
    LET mine == {i \in 1..Len(messages) : messages[i].role = "assistant"}
    IN  IF mine = {} THEN Str(<<>>)
        ELSE Get(messages[CHOOSE i \in mine : \A j \in mine : i >= j].content, <<>>)

\* line 67, with terminate = false
SentinelActive ==
    [terminate |-> FALSE, feedback |-> {"not_found"}, score |-> 0, meta |-> {}]

\* line 67: (True, "Error: Instance not found", 0.0, {})
Sentinel ==
    [terminate |-> TRUE, feedback |-> {"not_found"}, score |-> 0, meta |-> {}]

\* start_interaction that keeps the session of an id that has one
start_interactionOnce(instance_id, ground_truth) ==
    LET id == IF instance_id = NoId THEN Uuid4 ELSE instance_id IN
        /\ instance_id = NoId => issued < MaxUuids
        /\ issued' = IF instance_id = NoId THEN issued + 1 ELSE issued
        /\ interInst' = [j \in DOMAIN interInst \cup {id} |->
                            IF j = id /\ id \notin DOMAIN interInst
                            THEN [response |-> Str(<<>>), ground_truth |-> ground_truth,
                                  turn_count |-> 0, tool_usage_score |-> 0,
                                  analysis_quality_score |-> 0, completeness_score |-> 0,
                                  has_used_todo |-> FALSE, has_used_bash |-> FALSE,
                                  has_used_file_reader |-> FALSE]
                            ELSE interInst[j]]
        /\ ended' = IF id \in DOMAIN interInst THEN ended ELSE ended \ {id}
        /\ ret' = [NoRet EXCEPT !.tool = "interaction", !.op = "start_interaction",
                                !.id = id, !.known = id \in DOMAIN interInst,
                                !.args = <<instance_id, ground_truth>>]
        /\ UNCHANGED <<fileVars, bashVars, todoVars>>

\* a session is started, or started over, with the given ground_truth
start_interaction(instance_id, ground_truth) ==
    LET id == IF instance_id = NoId THEN Uuid4 ELSE instance_id IN
        /\ instance_id = NoId => issued < MaxUuids
        /\ issued' = IF instance_id = NoId THEN issued + 1 ELSE issued
        /\ interInst' = [j \in DOMAIN interInst \cup {id} |->
                            IF j = id
                            THEN [response |-> Str(<<>>), ground_truth |-> ground_truth,
                                  turn_count |-> 0, tool_usage_score |-> 0,
                                  analysis_quality_score |-> 0, completeness_score |-> 0,
                                  has_used_todo |-> FALSE, has_used_bash |-> FALSE,
                                  has_used_file_reader |-> FALSE]
                            ELSE interInst[j]]
        /\ ended' = ended \ {id}
        /\ ret' = [NoRet EXCEPT !.tool = "interaction", !.op = "start_interaction",
                                !.id = id, !.known = id \in DOMAIN interInst,
                                !.args = <<instance_id, ground_truth>>]
        /\ UNCHANGED <<fileVars, bashVars, todoVars>>

generate_response(id, messages) ==
    LET known == id \in DOMAIN interInst
        R == [NoRet EXCEPT !.tool = "interaction", !.op = "generate_response",
                           !.id = id, !.known = known, !.args = messages]
        content == LatestContent(messages)
        counted == [interInst[id] EXCEPT !.turn_count = @ + 1, !.response = content]
        analyzed == AnalyzeToolUsage(counted, content.v)
        turn_score == BlendedScore(analyzed)
        v == EvaluateCompletion(analyzed, content.v)
    IN  /\ known => interInst[id].turn_count < MaxCalls
        /\ IF ~known THEN
               /\ ret' = [R EXCEPT !.terminate = Sentinel.terminate,
                                    !.feedback = Sentinel.feedback,
                                    !.score = Sentinel.score, !.meta = Sentinel.meta]
               /\ UNCHANGED <<interInst, ended>>
           ELSE IF ~IsStr(content) THEN
               /\ interInst' = [interInst EXCEPT ![id] = counted]
               /\ ret' = [R EXCEPT !.raised = TRUE]
               /\ UNCHANGED ended
           ELSE
               /\ interInst' = [interInst EXCEPT ![id] = v.instance]
               /\ ended' = IF ~v.raised /\ v.terminate THEN ended \cup {id} ELSE ended
               /\ ret' = IF v.raised THEN [R EXCEPT !.raised = TRUE]
                         ELSE [R EXCEPT
                                  !.terminate = v.terminate, !.feedback = v.feedback,
                                  !.score = turn_score,
                                  !.meta = {[turn_count |-> v.instance.turn_count,
                                             tool_usage_score |->
                                                 v.instance.tool_usage_score,
                                             analysis_quality |->
                                                 v.instance.analysis_quality_score]}]
        /\ UNCHANGED nonInterVars

calculate_score(id) ==
    /\ ret' = [NoRet EXCEPT !.tool = "interaction", !.op = "calculate_score",
                            !.id = id, !.known = id \in DOMAIN interInst,
                            !.score = IF id \in DOMAIN interInst
                                      THEN BlendedScore(interInst[id]) ELSE 0]
    /\ UNCHANGED <<interVars, nonInterVars>>

finalize_interaction(id) ==
    /\ interInst' = [j \in DOMAIN interInst \ {id} |-> interInst[j]]
    /\ ended' = ended \ {id}
    /\ ret' = [NoRet EXCEPT !.tool = "interaction", !.op = "finalize_interaction",
                            !.id = id, !.known = id \in DOMAIN interInst]
    /\ UNCHANGED nonInterVars

---------------------------------------------------------------------------
(* The file editor on one file, called by one caller at a time *)

EditIds == {"i1"}                \* ids that create is called with
CallIds == {"i1", "i2"}          \* ids that execute is called with

PlainFs(data) ==
    (<<"sb">> :> Dir) @@ (<<"sb", "d">> :> Dir) @@ (<<"sb", "f">> :> File(data))

EditPathArgs ==
    {Str(<<"f">>), Str(<<"d">>), Str(<<"x">>), Str(<<" ">>), Str(<<"..">>), NoneVal, Missing}
EditOldArgs ==
    {Str(<<"a">>), Str(<<"LF">>), Str(<<"a", "b">>), Str(<<>>), Missing, IntVal}
EditNewArgs == {Str(<<>>), Str(<<"b">>), Str(<<"a", "a">>), NoneVal}

\* the argument triples of the execute calls: every path with one edit, and
\* every edit of the file f
EditArgs ==
    {<<pf, Str(<<"a">>), Str(<<"b">>)>> : pf \in EditPathArgs}
        \cup {<<Str(<<"f">>), po, pn>> : po \in EditOldArgs, pn \in EditNewArgs}

\* the file tools constructed and idle, on a sandbox that holds one file
FilesConstructed ==
    /\ fs = PlainFs(<<>>)
    /\ cfgBackup = TRUE
    /\ editInst = <<>>
    /\ readInst = <<>>
    /\ frame = Idle
    /\ peer = Idle

InitEdit ==
    /\ issued = 0
    /\ fs \in {PlainFs(data) : data \in SeqsUpTo(Alphabet, MaxLen)}
    /\ cfgBackup \in BOOLEAN
    /\ editInst = <<>>
    /\ readInst = <<>>
    /\ frame = Idle
    /\ peer = Idle
    /\ BashConstructed({})
    /\ TodoConstructed
    /\ InterConstructed
    /\ ret = NoRet

NextEdit ==
    \/ \E id \in EditIds : FileEditTool_create(id)
    \/ \E id \in CallIds : FileEditTool_release(id)
    \/ \E id \in CallIds : FileEditTool_calc_reward(id)
    \/ \E id \in CallIds, a \in EditArgs : FileEditTool_execute(id, a[1], a[2], a[3])
    \/ FileEditTool_backup
    \/ FileEditTool_overwrite

SpecEdit == InitEdit /\ [][NextEdit]_vars

---------------------------------------------------------------------------
(* The editor and the reader on a sandbox that holds symbolic links *)

\* /sb is the sandbox; /o and its file g are outside of it
NoLinksFs ==
    PlainFs(<<"a">>) @@ (<<"o">> :> Dir) @@ (<<"o", "g">> :> File(<<"a">>))

\* lf leads to a file outside, ln to a directory outside, in to a file inside
LinksFs ==
    NoLinksFs @@ (<<"sb", "lf">> :> Link(<<"o", "g">>))
              @@ (<<"sb", "ln">> :> Link(<<"o">>))
              @@ (<<"sb", "in">> :> Link(<<"sb", "f">>))

\* the place of f's backup is taken by a link that leads outside
BakLinkFs == LinksFs @@ (<<"sb", "f.bak">> :> Link(<<"o", "g">>))

SandboxPaths ==
    { <<"f">>, <<"/", "f">>, <<" ", "f">>, <<"d", "/", "..", "/", "f">>, <<"in">>,
      <<"d">>, <<"x">>, <<"/">>,
      <<"..", "/", "o", "/", "g">>, <<"/", "..", "/", "o", "/", "g">>,
      <<"d", "/", "..", "/", "..", "/", "o", "/", "g">>,
      <<"..", "/", "sb", "/", "f">>,
      <<"lf">>, <<"ln", "/", "g">>, <<"ln", "/", "..", "/", "sb", "/", "f">>,
      <<"in", "/", "..", "/", "..", "/", "o", "/", "g">> }

ReaderPaths ==
    { <<"f">>, <<"in">>, <<"d">>, <<"..", "/", "o", "/", "g">>, <<"lf">>,
      <<"ln", "/", "g">>, <<"in", "/", "..", "/", "..", "/", "o", "/", "g">> }

SandboxEdits == {<<Str(<<"a">>), Str(<<"b">>)>>, <<Str(<<"b">>), Str(<<"a">>)>>}

InitSandbox ==
    /\ issued = 0
    /\ fs \in {NoLinksFs, LinksFs, BakLinkFs}
    /\ cfgBackup \in BOOLEAN
    /\ editInst = <<>>
    /\ readInst = <<>>
    /\ frame = Idle
    /\ peer = Idle
    /\ BashConstructed({})
    /\ TodoConstructed
    /\ InterConstructed
    /\ ret = NoRet

NextSandbox ==
    \/ \E id \in EditIds : FileEditTool_create(id)
    \/ \E id \in EditIds : FileReaderTool_create(id)
    \/ \E id \in EditIds : FileEditTool_release(id)
    \/ \E id \in EditIds : FileReaderTool_release(id)
    \/ \E id \in EditIds, path \in SandboxPaths, e \in SandboxEdits :
          FileEditTool_execute(id, Str(path), e[1], e[2])
    \/ FileEditTool_backup
    \/ FileEditTool_overwrite
    \/ \E id \in EditIds, path \in ReaderPaths : FileReaderTool_execute(id, Str(path), NoNum)

SpecSandbox == InitSandbox /\ [][NextSandbox]_vars

---------------------------------------------------------------------------
(* The file reader on one file of up to ReaderMaxFileSize bytes, with the  *)
(* line counts that a caller can ask for                                   *)

ReadTexts == SeqsUpTo({"a", "CR", "LF"}, ReaderMaxFileSize)

NumLinesArgs == {NoNum} \cup {Num(n) : n \in -1..(MaxLines + 1)}

InitRead ==
    /\ issued = 0
    /\ fs \in {PlainFs(data) : data \in ReadTexts}
    /\ cfgBackup = TRUE
    /\ editInst = <<>>
    /\ readInst = <<>>
    /\ frame = Idle
    /\ peer = Idle
    /\ BashConstructed({})
    /\ TodoConstructed
    /\ InterConstructed
    /\ ret = NoRet

NextRead ==
    \/ \E id \in EditIds : FileReaderTool_create(id)
    \/ \E id \in EditIds, n \in NumLinesArgs : FileReaderTool_execute(id, Str(<<"f">>), n)

SpecRead == InitRead /\ [][NextRead]_vars

---------------------------------------------------------------------------
(* Two workers that share the sandbox and edit the same file.  execute has *)
(* no await and no lock: calls of one event loop run one after the other,  *)
(* calls of two threads or processes interleave at every file operation.   *)
(* frame is the call of the worker that runs, peer the call of the worker  *)
(* that waits.                                                             *)

ConcurrentEdits ==
    {<<"i1", Str(<<"a">>), Str(<<"c">>)>>, <<"i2", Str(<<"b">>), Str(<<"d">>)>>}

InitConcurrent ==
    /\ issued = 0
    /\ fs = PlainFs(<<"a", "b">>)
    /\ cfgBackup \in BOOLEAN
    /\ editInst = <<>>
    /\ readInst = <<>>
    /\ frame = Idle
    /\ peer = Idle
    /\ BashConstructed({})
    /\ TodoConstructed
    /\ InterConstructed
    /\ ret = NoRet

\* the operating system runs the other worker
WorkerSwitch ==
    /\ frame # peer
    /\ frame' = peer
    /\ peer' = frame
    /\ UNCHANGED <<fs, cfgBackup, editInst, readInst, nonFileVars, ret>>

NextConcurrent ==
    \/ \E id \in CallIds : FileEditTool_create(id)
    \/ \E e \in ConcurrentEdits : FileEditTool_execute(e[1], Str(<<"f">>), e[2], e[3])
    \/ FileEditTool_backup
    \/ FileEditTool_overwrite
    \/ WorkerSwitch

SpecConcurrent == InitConcurrent /\ [][NextConcurrent]_vars

---------------------------------------------------------------------------
(* The command runner: one execute call at a time, while create, release  *)
(* and calc_reward may run during the wait                                 *)

BashCommands ==
    {Str(<<"echo">>), Str(<<"echo", "Error:">>), Str(<<"yes", "|", "head">>),
     Str(<<"false">>), Str(<<"ls", "nofile">>), Str(<<"echo", ";", "false">>),
     Str(<<"sleep">>), Str(<<"sleep", ";", "true">>), Str(<<" ">>)}

\* the calls of execute: (command, timeout, whether the shell can be started)
BashCalls ==
    {<<c, Missing, TRUE>> : c \in BashCommands \cup {Str(<<>>), Missing, NoneVal, IntVal}}
        \cup {<<Str(<<"echo">>), Missing, FALSE>>, <<Str(<<"sleep">>), IntVal, TRUE>>}

InitBash ==
    /\ issued = 0
    /\ FilesConstructed
    /\ \E allowed \in {{}, {<<"echo">>}} : BashConstructed(allowed)
    /\ TodoConstructed
    /\ InterConstructed
    /\ ret = NoRet

NextBash ==
    \/ \E id \in EditIds : BashTool_create(id)
    \/ \E id \in CallIds : BashTool_release(id)
    \/ \E id \in CallIds : BashTool_calc_reward(id)
    \/ \E id \in CallIds, c \in BashCalls : BashTool_execute(id, c[1], c[2], c[3])
    \/ ShellStartsChild
    \/ BashTool_execute_completed
    \/ BashTool_execute_timeout
    \/ OrphanExits

SpecBash == InitBash /\ [][NextBash]_vars

---------------------------------------------------------------------------
(* The command runner on commands whose output is next to the thresholds  *)

OutputCommands ==
    UNION {{Str(PrintfCommand(kind, n)) : n \in OutputSizes(kind)} : kind \in PrintfKinds}
        \cup {Str(<<"false">>), Str(<<" ">>)}

InitOutput ==
    /\ issued = 0
    /\ FilesConstructed
    /\ BashConstructed({})
    /\ TodoConstructed
    /\ InterConstructed
    /\ ret = NoRet

NextOutput ==
    \/ \E id \in EditIds : BashTool_create(id)
    \/ \E id \in EditIds, c \in OutputCommands : BashTool_execute(id, c, Missing, TRUE)
    \/ BashTool_execute_completed

SpecOutput == InitOutput /\ [][NextOutput]_vars

---------------------------------------------------------------------------
(* The ledger, called by one caller at a time *)

TodoIds == {"i1"}

\* the parameter maps of the execute calls
TodoCalls ==
    {Params(Str(<<"add">>), a[1], Missing, a[2], Missing) :
        a \in {<<Str(<<"x">>), Str(<<"high">>)>>, <<Str(<<"Y">>), Str(<<"low">>)>>,
               <<Str(<<"x">>), Missing>>, <<Str(<<" ">>), Missing>>,
               <<NoneVal, Missing>>, <<Str(<<"x">>), Str(<<"urgent">>)>>}}
    \cup {Params(Str(<<act>>), Missing, i, Missing, Missing) :
            act \in {"complete", "incomplete", "remove"},
            i \in {Str(<<"1">>), Str(<<"2">>)}}
    \cup {Params(Str(<<"complete">>), Missing, i, Missing, Missing) :
            i \in {Str(<<" ", "1">>), Missing, IntVal}}
    \cup {Params(Str(<<act>>), Missing, Missing, Missing, Missing) :
            act \in {"list", "clear", "bogus"}}
    \cup {Params(Str(<<"search">>), Missing, Missing, Missing, q) :
            q \in {Str(<<"X", " ">>), Missing}}
    \cup {Params(Missing, Missing, Missing, Missing, Missing)}

\* the execute calls: every parameter map on the created id, one call on an
\* id that was never created
TodoRequests ==
    {<<id, p>> : id \in TodoIds, p \in TodoCalls}
        \cup {<<"i2", Params(Str(<<"list">>), Missing, Missing, Missing, Missing)>>}

InitTodo ==
    /\ issued = 0
    /\ FilesConstructed
    /\ BashConstructed({})
    /\ TodoConstructed
    /\ InterConstructed
    /\ ret = NoRet

NextTodo ==
    \/ \E id \in TodoIds : TodoListTool_create(id)
    \/ \E id \in CallIds : TodoListTool_release(id)
    \/ \E id \in CallIds : TodoListTool_calc_reward(id)
    \/ \E r \in TodoRequests, t \in 1..MaxTime : TodoListTool_execute(r[1], r[2], t)

SpecTodo == InitTodo /\ [][NextTodo]_vars

---------------------------------------------------------------------------
(* The interaction: sessions of one caller *)

Word(s, n) == <<Chunk(s, n)>>

\* a long message that names every tool and meets every rubric
FullContent ==
    Word("TODO", 5) \o Word("tools", 6) \o Word("Read", 5) \o Word("analyze", 8)
        \o Word("structure", 10) \o Word("summary", 8) \o Word("purpose", 8)
        \o Word("verl", 5) \o Word("padding", 200)

\* a long message that names two tools
TwoToolContent ==
    Word("TODO", 5) \o Word("execute", 8) \o Word("analyze", 8)
        \o Word("structure", 10) \o Word("padding", 200)

Msg(role, content) == [role |-> role, content |-> content]

Transcripts ==
    { <<Msg("user", Str(Word("analyze", 8))), Msg("assistant", Str(FullContent))>>,
      <<Msg("assistant", Str(FullContent)), Msg("assistant", Str(Word("hello", 5)))>>,
      <<Msg("assistant", Str(TwoToolContent))>>,
      <<Msg("assistant", Str(Word("analyze", 8) \o Word("Read", 5)))>>,
      <<Msg("user", Str(FullContent))>>,
      <<Msg("assistant", NoneVal)>>,
      <<Msg("assistant", Missing)>> }

GroundTruths ==
    {NoneVal, Str(<<"repository_overview_analysis">>),
     Str(<<"tools_architecture_analysis">>), Str(<<"other">>)}

InitInter ==
    /\ issued = 0
    /\ FilesConstructed
    /\ BashConstructed({})
    /\ TodoConstructed
    /\ InterConstructed
    /\ ret = NoRet

NextInter ==
    \/ \E id \in EditIds, g \in GroundTruths : start_interaction(id, g)
    \/ \E id \in CallIds, m \in Transcripts : generate_response(id, m)
    \/ \E id \in CallIds : calculate_score(id)
    \/ \E id \in CallIds : finalize_interaction(id)

SpecInter == InitInter /\ [][NextInter]_vars

---------------------------------------------------------------------------
(* The life cycle of the records: create, with an id of the caller or      *)
(* without one, use, calc_reward and release, for the four tools and the   *)
(* interaction.  The five objects share no field, and the caller works     *)
(* with one of them at a time: it turns to another one when the one it     *)
(* used holds no record and runs no call.                                  *)

\* the ids that release, calc_reward and finalize are called with: the
\* caller's own and the generated ones
LifeIds == {"i1"} \cup {UuidOf(n) : n \in 1..MaxUuids}
\* the ids that execute is called with
UseIds == {"i1", UuidOf(1)}

\* a tool's _instance_dict
DictOf(tool) ==
    CASE tool = "edit" -> editInst
      [] tool = "read" -> readInst
      [] tool = "bash" -> bashInst
      [] tool = "todo" -> todoInst
      [] tool = "interaction" -> interInst

\* the objects that hold a record or run a call
Busy ==
    (IF editInst # <<>> \/ frame.pc # "idle" THEN {"edit"} ELSE {})
        \cup (IF readInst # <<>> THEN {"read"} ELSE {})
        \cup (IF bashInst # <<>> \/ bframe.pc # "idle" THEN {"bash"} ELSE {})
        \cup (IF todoInst # <<>> THEN {"todo"} ELSE {})
        \cup (IF interInst # <<>> THEN {"interaction"} ELSE {})

\* the caller may call this object
Turn(tool) == Busy \subseteq {tool}

LifeEdits == {<<Str(<<"a">>), Str(<<"b">>)>>, <<Str(<<"b">>), Str(<<"a">>)>>}
LifeTodoCalls ==
    {Params(Str(<<"add">>), Str(<<"x">>), Missing, Missing, Missing),
     Params(Str(<<"complete">>), Missing, Str(<<"1">>), Missing, Missing)}

InitLifecycle ==
    /\ issued = 0
    /\ fs = PlainFs(<<"a">>)
    /\ cfgBackup = TRUE
    /\ editInst = <<>>
    /\ readInst = <<>>
    /\ frame = Idle
    /\ peer = Idle
    /\ BashConstructed({})
    /\ TodoConstructed
    /\ InterConstructed
    /\ ret = NoRet

NextLifecycle ==
    \/ Turn("edit") /\ \E id \in {"i1", NoId} : FileEditTool_create(id)
    \/ Turn("edit") /\ \E id \in LifeIds : FileEditTool_release(id)
    \/ Turn("edit") /\ \E id \in LifeIds : FileEditTool_calc_reward(id)
    \/ Turn("edit") /\ \E id \in UseIds, e \in LifeEdits :
          FileEditTool_execute(id, Str(<<"f">>), e[1], e[2])
    \/ FileEditTool_backup
    \/ FileEditTool_overwrite
    \/ Turn("read") /\ \E id \in {"i1", NoId} : FileReaderTool_create(id)
    \/ Turn("read") /\ \E id \in LifeIds : FileReaderTool_release(id)
    \/ Turn("read") /\ \E id \in LifeIds : FileReaderTool_calc_reward(id)
    \/ Turn("read") /\ \E id \in UseIds : FileReaderTool_execute(id, Str(<<"f">>), NoNum)
    \/ Turn("bash") /\ \E id \in {"i1", NoId} : BashTool_create(id)
    \/ Turn("bash") /\ \E id \in LifeIds : BashTool_release(id)
    \/ Turn("bash") /\ \E id \in LifeIds : BashTool_calc_reward(id)
    \/ Turn("bash") /\ \E id \in UseIds, c \in {Str(<<"echo">>), Str(<<"false">>)} :
          BashTool_execute(id, c, Missing, TRUE)
    \/ BashTool_execute_completed
    \/ Turn("todo") /\ \E id \in {"i1", NoId} : TodoListTool_create(id)
    \/ Turn("todo") /\ \E id \in LifeIds : TodoListTool_release(id)
    \/ Turn("todo") /\ \E id \in LifeIds : TodoListTool_calc_reward(id)
    \/ Turn("todo") /\ \E id \in UseIds, p \in LifeTodoCalls :
          TodoListTool_execute(id, p, now)
    \/ Turn("interaction") /\ \E id \in {"i1", NoId} : 
          start_interaction(id, Str(<<"repository_overview_analysis">>))
    \/ Turn("interaction") /\ \E id \in LifeIds : 
          generate_response(id, <<Msg("assistant", Str(FullContent))>>)
    \/ Turn("interaction") /\ \E id \in LifeIds : finalize_interaction(id)

SpecLifecycle == InitLifecycle /\ [][NextLifecycle]_vars

---------------------------------------------------------------------------
(* Two instance ids on one object, or one instance id on two objects: the  *)
(* caller works with two records of one object at a time, or with two      *)
(* objects under the one id i1.                                            *)

IsoIds == {"i1", "i2"}

\* the caller may call this object with this id
MayCall(tool, id) ==
    \/ Busy \subseteq {tool}
    \/ /\ Cardinality(Busy \cup {tool}) <= 2
       /\ id = "i1"
       /\ \A t \in Busy : DOMAIN DictOf(t) \subseteq {"i1"}

NextIsolation ==
    \/ \E id \in IsoIds : MayCall("edit", id) /\ FileEditTool_create(id)
    \/ \E id \in IsoIds : MayCall("edit", id) /\ FileEditTool_release(id)
    \/ \E id \in IsoIds : MayCall("edit", id) /\ FileEditTool_calc_reward(id)
    \/ \E id \in IsoIds : MayCall("edit", id) /\
          FileEditTool_execute(id, Str(<<"f">>), Str(<<"a">>), Str(<<"b">>))
    \/ FileEditTool_backup
    \/ FileEditTool_overwrite
    \/ \E id \in IsoIds : MayCall("read", id) /\ FileReaderTool_create(id)
    \/ \E id \in IsoIds : MayCall("read", id) /\ FileReaderTool_release(id)
    \/ \E id \in IsoIds : MayCall("read", id) /\ FileReaderTool_calc_reward(id)
    \/ \E id \in IsoIds : MayCall("read", id) /\
          FileReaderTool_execute(id, Str(<<"f">>), NoNum)
    \/ \E id \in IsoIds : MayCall("bash", id) /\ BashTool_create(id)
    \/ \E id \in IsoIds : MayCall("bash", id) /\ BashTool_release(id)
    \/ \E id \in IsoIds : MayCall("bash", id) /\ BashTool_calc_reward(id)
    \/ \E id \in IsoIds : MayCall("bash", id) /\
          BashTool_execute(id, Str(<<"echo">>), Missing, TRUE)
    \/ BashTool_execute_completed
    \/ \E id \in IsoIds : MayCall("todo", id) /\ TodoListTool_create(id)
    \/ \E id \in IsoIds : MayCall("todo", id) /\ TodoListTool_release(id)
    \/ \E id \in IsoIds : MayCall("todo", id) /\ TodoListTool_calc_reward(id)
    \/ \E id \in IsoIds, p \in LifeTodoCalls : MayCall("todo", id) /\
          TodoListTool_execute(id, p, now)
    \/ \E id \in IsoIds : MayCall("interaction", id) /\
          start_interaction(id, Str(<<"repository_overview_analysis">>))
    \/ \E id \in IsoIds : MayCall("interaction", id) /\
          generate_response(id, <<Msg("assistant", Str(FullContent))>>)
    \/ \E id \in IsoIds : MayCall("interaction", id) /\ finalize_interaction(id)

SpecIsolation == InitLifecycle /\ [][NextIsolation]_vars

---------------------------------------------------------------------------
(* The ledger with more completed items than list shows: max_items is the  *)
(* default, and the instance i1 has taken MaxListed adds and has completed *)
(* all items but the last three                                            *)

ListedItem(k) ==
    LET item == TodoItem(IdStr(k), <<"x">>,
                         Str(<<CASE k % 3 = 0 -> "high" [] k % 3 = 1 -> "medium"
                                 [] OTHER -> "low">>),
                         IF k = MaxListed THEN 2 ELSE 1)
    IN  IF k <= MaxListed - 3 THEN mark_completed(item, 1) ELSE item

InitList ==
    /\ issued = 0
    /\ FilesConstructed
    /\ BashConstructed({})
    /\ InterConstructed
    /\ cfgMaxItems = DefaultMaxItems
    /\ todoInst = [id \in {"i1"} |->
                      [todos |-> [k \in 1..MaxListed |-> ListedItem(k)],
                       next_id |-> MaxListed + 1, total_added |-> MaxListed,
                       total_completed |-> MaxListed - 3]]
    /\ now = 2
    /\ added = [id \in {"i1"} |-> MaxListed]
    /\ ret = NoRet

\* the parameter maps of the execute calls
ListCalls ==
    {Params(Str(<<act>>), Missing, Str(IdStr(k)), Missing, Missing) :
        act \in {"complete", "incomplete"},
        k \in {1} \cup (MaxListed - 2)..MaxListed}
    \cup {Params(Str(<<"list">>), Missing, Missing, Missing, Missing)}

NextList ==
    \/ \E p \in ListCalls, t \in {now, now + 1} : TodoListTool_execute("i1", p, t)
    \/ TodoListTool_calc_reward("i1")

SpecList == InitList /\ [][NextList]_vars

---------------------------------------------------------------------------
(* Properties of the file editor *)

EditReturned == frame.pc = "idle" /\ ret.tool = "edit" /\ ret.op = "execute"
EditSucceeded ==
    EditReturned /\ ret.known /\ ~ret.raised /\ ret.err = "" /\ ret.reward = 10

BakHolds(fsys, full_path, data) ==
    /\ Exists(fsys, BakPath(full_path))
    /\ fsys[BakPath(full_path)].kind = "file"
    /\ fsys[BakPath(full_path)].data = data

OccursAt(s, sub, i) ==
    i >= 1 /\ i + Len(sub) - 1 <= Len(s) /\ SubSeq(s, i, i + Len(sub) - 1) = sub

\* post is pre with its first occurrence of old replaced by new and nothing
\* else changed
IsFirstOccurrenceEdit(pre, old, new, post) ==
    \E i \in 1..Len(pre) :
        /\ OccursAt(pre, old, i)
        /\ \A j \in 1..(i - 1) : ~OccursAt(pre, old, j)
        /\ post = SubSeq(pre, 1, i - 1) \o new \o SubSeq(pre, i + Len(old), Len(pre))

\* C3 (as claimed): execute with an instance id that has no record returns a
\* NotFound error with reward 0.0 and touches no file.
C3_UnknownIdIsNotFound ==
    (ret.op = "execute" /\ ~ret.known /\ ~ret.raised /\ frame.pc = "idle")
        => (ret.err = "instance_not_found" /\ ret.reward = 0 /\ ret.io = {})

\* C4 (as claimed): execute returns a triple for every parameters map and
\* never raises past its boundary.
C4_ExecuteNeverRaises == ~ret.raised

\* C6 (as claimed): after a successful edit the file is its pre-edit content
\* with only the first occurrence of old_string replaced by new_string, and,
\* with backups enabled, <path>.bak holds the pre-edit content.
C6_FirstOccurrenceAndBackup ==
    EditSucceeded =>
        /\ IsFirstOccurrenceEdit(ret.pre, ret.args[2].v, ret.args[3].v,
                                 fs[ret.full].data)
        /\ cfgBackup => BakHolds(fs, ret.full, ret.pre)

\* the step in which an execute call of the editor starts, and its arguments
EditCallStep ==
    frame.pc = "idle" /\ (frame'.pc # "idle" \/ (ret'.tool = "edit" /\ ret'.op = "execute"))
EditCallArgs == IF frame'.pc # "idle" THEN frame'.args ELSE ret'.args
EditCallKnown == IF frame'.pc # "idle" THEN frame'.known ELSE ret'.known

\* the arguments name a regular file of the sandbox, of an allowed size, and
\* a non-empty old_string that does not occur in the file's content
AbsentOld(fsys, args) ==
    LET pf == args[1]
        po == args[2]
        safe == GetSafePath(fsys, Strip(pf.v))
    IN  /\ IsStr(pf) /\ Strip(pf.v) # <<>>
        /\ IsStr(po) /\ po.v # <<>>
        /\ safe.ok /\ IsFile(fsys, safe.path)
        /\ Len(fsys[safe.path].data) <= MaxFileSize
        /\ ~Contains(fsys[safe.path].data, po.v)

\* C7: an edit whose old_string is not a substring of the file's content returns the
\* string_not_found error with reward 0.0 in the same step, and leaves the
\* whole filesystem (the file, and <path>.bak whether it exists or not) and
\* the instance records (the edit counter) unchanged, for a created instance.
C7_AbsentStringRejected ==
    [][(EditCallStep /\ EditCallKnown /\ AbsentOld(fs, EditCallArgs))
          => /\ frame'.pc = "idle"
             /\ ~ret'.raised /\ ret'.err = "string_not_found" /\ ret'.reward = 0
             /\ fs' = fs
             /\ editInst' = editInst]_vars

\* C8 (as claimed): with backups enabled, in every state of an edit and after
\* it, the original holds the pre-edit content or <path>.bak holds it.
C8_BackupFirst ==
    cfgBackup =>
        /\ (frame.pc # "idle" /\ frame.known) =>
              \/ fs[frame.full_path].data = frame.pre
              \/ BakHolds(fs, frame.full_path, frame.pre)
        /\ EditSucceeded =>
              \/ fs[ret.full].data = ret.pre
              \/ BakHolds(fs, ret.full, ret.pre)

---------------------------------------------------------------------------
(* Properties of the sandbox *)

InSandbox(p) == IsPrefix(Root, p)

\* where the caller's path leads: leading separators dropped, joined to the
\* root, links and ".." followed
LeadsTo(fsys, path) == Resolve(fsys, Root \o SplitPath(StripLeft(Strip(path), "/"), ""))

TargetAccess(io) == {e \in io : e.kind \in {"read", "write"}}

\* C1: the editor and the reader reject a path or work on a resolved path at
\* or below the sandbox root: every file that a call reads or overwrites as
\* its target lies in the sandbox, a successful call worked on the file its
\* path leads to, and a call whose path leads outside the sandbox returns the
\* invalid_path error having read, written and backed up nothing.  (Where the
\* backup of a path that leads inside lands is not part of this property.)
C1_SandboxContainment ==
    /\ frame.pc # "idle" =>
          /\ InSandbox(frame.full_path)
          /\ \A e \in TargetAccess(frame.io) : InSandbox(e.path)
    /\ (frame.pc = "idle" /\ ret.op = "execute" /\ ret.tool \in {"edit", "read"}
            /\ ~ret.raised) =>
          /\ \A e \in TargetAccess(ret.io) : InSandbox(e.path)
          /\ ret.err = "" =>
                /\ InSandbox(ret.full)
                /\ ret.full = LeadsTo(fs, ret.args[1].v)
                /\ \A e \in TargetAccess(ret.io) : e.path = ret.full
          /\ ~InSandbox(LeadsTo(fs, ret.args[1].v)) =>
                /\ ret.err = "invalid_path" /\ ret.reward = 0
                /\ ret.io = {}

\* a path through a link that leads out of the sandbox was rejected
C1_Witness ==
    /\ frame.pc = "idle" /\ ret.op = "execute" /\ ret.err = "invalid_path"
    /\ ret.args[1].v = <<"ln", "/", "g">>
    /\ LeadsTo(fs, ret.args[1].v) = <<"o", "g">>
    /\ Exists(fs, BakPath(<<"sb", "f">>))

---------------------------------------------------------------------------
(* Properties of the command runner *)

BashReturned == bframe.pc = "idle" /\ ret.tool = "bash" /\ ret.op = "execute"

\* C2: when a command runs longer than its timeout, execute returns the
\* timeout error with reward 0.0 and no process of the call, neither the
\* shell nor anything the shell started, is alive when execute returns.
C2_TimeoutReapsEverything ==
    (BashReturned /\ ret.known /\ ret.outcome = "timeout")
        => /\ ret.reward = 0
           /\ ret.text = TimeoutText
           /\ ret.alive = {}

\* C5: every failing execute call returns reward 0.0 and metadata with an
\* error key; for the command runner that includes a non-zero exit code, a
\* timeout and a shell that cannot be started.
C5_FailuresCarryError ==
    (BashReturned /\ ret.known /\ ret.outcome \in {"exitN", "timeout", "nospawn"})
        => ret.reward = 0 /\ ret.err # ""

---------------------------------------------------------------------------
(* Properties of the ledger *)

TodoReturned(action) ==
    ret.tool = "todo" /\ ret.op = "execute" /\ ret.known
        /\ ret.args.action = Str(<<action>>)

IdsWhere(todos, flag) == {todos[k].id : k \in {j \in 1..Len(todos) : todos[j].completed = flag}}

Range(seq) == {seq[i] : i \in 1..Len(seq)}

\* C9: calc_reward returns (items now marked completed) / (items ever
\* added by a successful add), and 0 when nothing was added or the instance
\* does not exist; a listing returns the pending items and the completed
\* items as two lists, so that after add(x, high), add(y, low), complete(x)
\* it is pending=[y], completed=[x] and calc_reward is 1/2.
C9_RewardIsCompletedOverAdded ==
    /\ (ret.tool = "todo" /\ ret.op = "calc_reward" /\ ~ret.known)
           => ret.ratio = <<0, 1>>
    /\ (ret.tool = "todo" /\ ret.op = "calc_reward" /\ ret.known)
           => ret.ratio =
                  IF added[ret.id] = 0 THEN <<0, 1>>
                  ELSE <<Cardinality(IdsWhere(todoInst[ret.id].todos, TRUE)),
                         added[ret.id]>>
    /\ TodoReturned("list")
           => /\ Range(ret.pending) = IdsWhere(todoInst[ret.id].todos, FALSE)
              /\ Range(ret.completed) = IdsWhere(todoInst[ret.id].todos, TRUE)
              /\ Len(ret.pending) + Len(ret.completed) = Len(todoInst[ret.id].todos)

\* calc_reward has returned 1/2 on the ledger of add(x, high), add(y, low),
\* complete(x)
C9_Witness ==
    /\ ret.tool = "todo" /\ ret.op = "calc_reward" /\ ret.known
    /\ ret.ratio = <<1, 2>>
    /\ LET todos == todoInst[ret.id].todos
       IN  /\ Len(todos) = 2
           /\ todos[1].id = IdStr(1) /\ todos[1].priority = Str(<<"high">>)
           /\ todos[1].completed
           /\ todos[2].id = IdStr(2) /\ todos[2].priority = Str(<<"low">>)
           /\ ~todos[2].completed

\* the item that a call names is already in the state the call asks for
AlreadyInState(p, id) ==
    /\ id \in DOMAIN todoInst
    /\ IsStr(p.item_id)
    /\ LET todos == todoInst[id].todos
           k == IndexOf(todos, Strip(p.item_id.v))
       IN  /\ k # 0
           /\ \/ p.action = Str(<<"complete">>) /\ todos[k].completed
              \/ p.action = Str(<<"incomplete">>) /\ ~todos[k].completed

\* C10: complete on a completed item and incomplete on a pending item
\* return reward 0.5, flag the condition in the metadata, carry no error
\* key, and leave the ledger as it was: every item with its completed flag
\* and completed_at, the completed counter and the id counter.
C10_AlreadyInStateIsNoOp ==
    [][(ret'.tool = "todo" /\ ret'.op = "execute" /\ AlreadyInState(ret'.args, ret'.id))
          => /\ ret'.reward = 5
             /\ ret'.err = ""
             /\ ret'.already = (IF ret'.args.action = Str(<<"complete">>)
                                THEN "already_completed" ELSE "already_incomplete")
             /\ todoInst' = todoInst]_vars

\* complete was called on a completed item whose completion time is past
C10_Witness ==
    /\ TodoReturned("complete")
    /\ ret.already = "already_completed"
    /\ \E k \in 1..Len(todoInst[ret.id].todos) :
          /\ todoInst[ret.id].todos[k].completed
          /\ todoInst[ret.id].todos[k].completed_at < now

\* the number n for which id is str(n), 0 when there is none up to bound
IdNum(id, bound) ==
    IF \E n \in 1..bound : IdStr(n) = id
    THEN CHOOSE n \in 1..bound : IdStr(n) = id
    ELSE 0

\* C11: in a ledger instance the k-th successful add is given the id str(k),
\* counting from 1: the id counter is one more than the number of successful
\* adds (a failed add consumes nothing), the items held carry distinct ids
\* between 1 and that number in strictly increasing order of insertion, also
\* after remove and clear, and the id that a successful add returns is the
\* number of successful adds so far.
C11_IdsCountSuccessfulAdds ==
    /\ \A id \in DOMAIN todoInst :
          LET todos == todoInst[id].todos
              num(k) == IdNum(todos[k].id, added[id])
          IN  /\ todoInst[id].next_id = added[id] + 1
              /\ \A k \in 1..Len(todos) : num(k) >= 1
              /\ \A k \in 1..Len(todos) - 1 : num(k) < num(k + 1)
    /\ (TodoReturned("add") /\ ret.err = "")
          => /\ ret.item_id = IdStr(added[ret.id])
             /\ LET todos == todoInst[ret.id].todos
                IN  Len(todos) >= 1 /\ todos[Len(todos)].id = ret.item_id

\* the third successful add, made after items were removed, got the id "3"
C11_Witness ==
    /\ TodoReturned("add") /\ ret.err = ""
    /\ ret.item_id = IdStr(3)
    /\ Len(todoInst[ret.id].todos) = 1

---------------------------------------------------------------------------
(* Properties of the interaction *)

\* generate_response has returned, or raised, on a live session
TurnTaken ==
    ret.tool = "interaction" /\ ret.op = "generate_response" /\ ret.known
        /\ ret.id \in DOMAIN interInst

\* this step is a generate_response call on the live session id
TurnStep(id) ==
    /\ id \in DOMAIN interInst /\ id \in DOMAIN interInst'
    /\ interInst'[id].turn_count = interInst[id].turn_count + 1
    /\ ret'.tool = "interaction" /\ ret'.op = "generate_response" /\ ret'.id = id

\* C12: the score that generate_response returns for a turn is the blend
\* min(1.0, 0.4*tool_usage + 0.4*analysis_quality + 0.2*completeness) of the
\* sub-scores computed from that turn's message; a first-turn message that is
\* long enough, names all three tools and reaches analysis_quality >= 2/3
\* gives completeness 1.0, terminate = true and score 0.4 + 0.4*q + 0.2.
C12_ScoreBlendsThisTurn ==
    (TurnTaken /\ ~ret.raised)
        => LET instance == interInst[ret.id]
           IN  /\ ret.score = BlendedScore(instance)
               /\ (instance.turn_count = 1 /\ instance.tool_usage_score = 3
                      /\ 3 * instance.analysis_quality_score >= 20
                      /\ TextLen(LatestContent(ret.args).v) >= MinAnalysisLength)
                     => /\ instance.completeness_score = 3
                        /\ ret.terminate
                        /\ ret.score =
                               Min(120 + 12 * instance.analysis_quality_score + 60, 300)

\* C13: in a session where completeness stays below 0.8, generate_response
\* returns terminate = false on each of the turns 1 .. max_turns-1 and
\* terminate = true on turn max_turns.
C13_EndsOnLastTurn ==
    [][\A id \in CallIds :
          (TurnStep(id) /\ id \notin ended
              /\ interInst'[id].turn_count <= MaxTurns
              /\ 10 * interInst'[id].completeness_score < 24)
             => /\ ~ret'.raised
                /\ ret'.terminate = (interInst'[id].turn_count = MaxTurns)]_vars

\* C14: once generate_response has returned terminate = true for a session,
\* every later generate_response call on that session that returns, returns
\* terminate = true as well.
C14_TerminatedIsFinal ==
    [][\A id \in CallIds :
          (TurnStep(id) /\ id \in ended /\ ~ret'.raised) => ret'.terminate]_vars

\* C15: calculate_score called after a generate_response call on the same
\* session returns the score that generate_response returned, and changes
\* nothing in the session records.
C15_CalculateScoreRepeatsTurnScore ==
    [][(TurnTaken /\ ~ret.raised
           /\ ret'.tool = "interaction" /\ ret'.op = "calculate_score"
           /\ ret'.id = ret.id)
          => (ret'.score = ret.score /\ interInst' = interInst)]_vars

\* C16: for a session id that is not started, generate_response returns the
\* sentinel (terminate = true, the error message, score 0.0, empty metadata)
\* and calculate_score returns 0.0; neither raises, neither creates a record.
C16_UnknownSessionSentinel ==
    /\ (ret.tool = "interaction" /\ ret.op = "generate_response" /\ ~ret.known)
          => /\ ~ret.raised
             /\ ret.terminate /\ ret.feedback = {"not_found"}
             /\ ret.score = 0 /\ ret.meta = {}
             /\ ret.id \notin DOMAIN interInst
    /\ (ret.tool = "interaction" /\ ret.op = "calculate_score" /\ ~ret.known)
          => /\ ~ret.raised /\ ret.score = 0
             /\ ret.id \notin DOMAIN interInst

\* the sentinel was returned for an id without a session while another
\* session had taken turns
C16_Witness ==
    /\ ret.tool = "interaction" /\ ret.op = "generate_response" /\ ~ret.known
    /\ ret.terminate /\ ret.id = "i2"
    /\ \E id \in DOMAIN interInst : interInst[id].turn_count >= 1

\* C17: on a session started without a ground_truth, generate_response
\* returns its tuple for every transcript whose latest assistant content is
\* a string, and never raises, also when analysis_quality is below 0.5 and
\* the session stays active.
C17_NoGroundTruthNeverRaises ==
    (TurnTaken /\ interInst[ret.id].ground_truth = NoneVal
        /\ IsStr(LatestContent(ret.args)))
        => ~ret.raised

---------------------------------------------------------------------------
(* Properties of the life cycle of the records *)

\* this step is the call op of the tool
CallStep(tool, op) == ret' # ret /\ ret'.tool = tool /\ ret'.op = op

\* C18: a create of a tool with an id that has a record returns that id and
\* changes nothing: not the record, nor any other state of the tools.  A
\* create with no id returns an id that had no record before the call, and
\* that has one after it.
C18_CreateIsIdempotent ==
    [][\A tool \in {"edit", "read", "bash", "todo"} :
          CallStep(tool, "create") =>
             /\ (ret'.args # <<NoId>> /\ ret'.args[1] \in DOMAIN DictOf(tool))
                   => /\ ret'.id = ret'.args[1]
                      /\ UNCHANGED <<fileVars, bashVars, todoVars, interVars, issued>>
             /\ ret'.args = <<NoId>>
                   => /\ ret'.id \notin DOMAIN DictOf(tool)
                      /\ ret'.id \in DOMAIN DictOf(tool)']_vars

\* a second create of the command runner has returned for an instance that
\* has run commands, after an id was generated for another instance
C18_Witness ==
    /\ ret.tool = "bash" /\ ret.op = "create" /\ ret.known
    /\ ret.args = <<ret.id>>
    /\ ret.id \in DOMAIN bashInst
    /\ bashInst[ret.id].commands_executed # <<>>
    /\ issued > 0
    /\ UuidOf(1) \in DOMAIN bashInst

\* the name of the operation that ends an instance
ReleaseOp(tool) == IF tool = "interaction" THEN "finalize_interaction" ELSE "release"

\* C19: release of a tool and finalize_interaction never raise; a call on an
\* id that has no record, because it was released before or never created,
\* changes no state; a call on an id that has a record removes that record
\* and leaves every other record as it is.
C19_ReleaseIsIdempotent ==
    [][\A tool \in {"edit", "read", "bash", "todo", "interaction"} :
          CallStep(tool, ReleaseOp(tool)) =>
             /\ ~ret'.raised
             /\ ret'.id \notin DOMAIN DictOf(tool)
                   => UNCHANGED <<fileVars, bashVars, todoVars, interVars, issued>>
             /\ DOMAIN DictOf(tool)' = DOMAIN DictOf(tool) \ {ret'.id}
             /\ \A j \in DOMAIN DictOf(tool)' : DictOf(tool)'[j] = DictOf(tool)[j]]_vars

\* the ledger has returned from the release of an id that never had a
\* record, while another instance holds items
C19_Witness ==
    /\ ret.tool = "todo" /\ ret.op = "release" /\ ~ret.known
    /\ ret.id = UuidOf(1) /\ issued = 0
    /\ "i1" \in DOMAIN todoInst
    /\ todoInst["i1"].todos # <<>>

\* the record that create stores for an id that has none
InitRecord(tool) ==
    CASE tool = "edit" -> [edits_made |-> 0]
      [] tool = "read" -> [files_read |-> <<>>, total_lines_read |-> 0,
                           successful_reads |-> 0]
      [] tool = "bash" -> [commands_executed |-> <<>>, outputs |-> <<>>,
                           total_reward |-> 0, successful_commands |-> 0]
      [] tool = "todo" -> [todos |-> <<>>, next_id |-> 1, total_added |-> 0,
                           total_completed |-> 0]

\* what the caller of calc_reward gets
RewardReturn(r) == [raised |-> r.raised, value |-> r.value, ratio |-> r.ratio]

\* calc_reward of a live instance whose reward is zero: the float 0.0
ZeroReward == [raised |-> FALSE, value |-> 0, ratio |-> <<0, 1>>]

\* C20: a calc_reward that follows the release of its instance finds no record,
\* stores none, and what it returns differs from what a live instance with
\* reward zero returns; a create of an id without a record stores the
\* initial record, with nothing of a released instance of that id.
C20_ReleasedIdIsNotFound ==
    [][\A tool \in {"edit", "read", "bash", "todo"} :
          /\ (CallStep(tool, "calc_reward") /\ ret.tool = tool /\ ret.op = "release"
                  /\ ret.known /\ ret.id = ret'.id)
                => /\ ret'.id \notin DOMAIN DictOf(tool)
                   /\ DictOf(tool)' = DictOf(tool)
                   /\ RewardReturn(ret') # ZeroReward
          /\ (CallStep(tool, "create") /\ ret'.id \notin DOMAIN DictOf(tool))
                => DictOf(tool)'[ret'.id] = InitRecord(tool)]_vars

---------------------------------------------------------------------------
(* Properties of the allow-list of the command runner *)

\* the command of the execute call on id that this step starts, or Missing
CommandOfCall(id) ==
    IF bframe.pc # "idle" THEN Missing
    ELSE IF bframe'.pc = "waiting" /\ bframe'.id = id THEN Get(bframe'.command, <<>>)
    ELSE IF ret' # ret /\ ret'.tool = "bash" /\ ret'.op = "execute" /\ ret'.id = id
         THEN Get(ret'.args[1], <<>>)
    ELSE Missing

\* C21: with an allow-list configured, an execute call on a created instance
\* whose command starts with none of the allowed prefixes starts no process,
\* returns the error forbidden_command with reward 0.0, and leaves every
\* instance record (the command history, the outputs and the counters)
\* unchanged.
C21_ForbiddenNeverRuns ==
    [][\A id \in DOMAIN bashInst :
          (cfgAllowed # {} /\ Truthy(CommandOfCall(id))
              /\ ~(IsStr(CommandOfCall(id))
                      /\ CommandAllowed(cfgAllowed, CommandOfCall(id).v)))
             => /\ procs' = procs
                /\ bframe' = bframe
                /\ bashInst' = bashInst
                /\ ~ret'.raised
                /\ ret'.err = "forbidden_command"
                /\ ret'.reward = 0]_vars

---------------------------------------------------------------------------
(* Properties of the isolation of the instances *)

---------------------------------------------------------------------------
(* Properties of the completeness check of the interaction *)

\* C23: two of the three tool-usage flags are enough for the tool-usage
\* check of completeness: a turn that leaves exactly two flags set, with a
\* message of at least min_analysis_length characters and analysis_quality
\* >= 2/3, has completeness 1.0 and ends the session with the success
\* feedback.
C23_TwoToolsAreEnough ==
    (TurnTaken /\ ~ret.raised)
        => LET instance == interInst[ret.id]
           IN  (/\ instance.tool_usage_score = 2
                /\ 3 * instance.analysis_quality_score >= 20
                /\ TextLen(LatestContent(ret.args).v) >= MinAnalysisLength)
                  => /\ instance.completeness_score = 3
                     /\ ret.terminate
                     /\ ret.feedback = {"excellent"}

---------------------------------------------------------------------------
(* Properties of the locations that the editor writes *)

Writes(io) == {e \in io : e.kind \in {"write", "backup"}}

\* C24: every location that the file editor writes during an edit on a
\* created instance, the target and the backup, lies at or below the sandbox
\* root, also when the sandbox holds symbolic links.
C24_WritesStayInSandbox ==
    /\ (frame.pc # "idle" /\ frame.known)
          => \A e \in Writes(frame.io) : InSandbox(e.path)
    /\ (ret.tool = "edit" /\ ret.op = "execute" /\ ret.known)
          => \A e \in Writes(ret.io) : InSandbox(e.path)


\* C25: when generate_response leaves the session active, the feedback names
\* the unmet criteria: the analysis-quality hint is there if and only if
\* analysis_quality < 2/3, the more-detail hint if and only if the message
\* is shorter than min_analysis_length, and a tool hint only for a tool that
\* the session has not used.
C25_FeedbackNamesUnmetCriteria ==
    (TurnTaken /\ ~ret.raised /\ ~ret.terminate)
        => LET instance == interInst[ret.id]
           IN  /\ ("focus" \in ret.feedback) <=> (3 * instance.analysis_quality_score < 20)
               /\ ("more_detail" \in ret.feedback)
                     <=> (TextLen(LatestContent(ret.args).v) < MinAnalysisLength)
               /\ "use_todo" \in ret.feedback => ~instance.has_used_todo
               /\ "use_bash" \in ret.feedback => ~instance.has_used_bash
               /\ "use_read_file" \in ret.feedback => ~instance.has_used_file_reader

---------------------------------------------------------------------------
(* Properties of the listing of the ledger *)

PriorityRank(priority) ==
    CASE priority = Str(<<"high">>) -> 0
      [] priority = Str(<<"medium">>) -> 1
      [] priority = Str(<<"low">>) -> 2

\* C26: list changes no ledger state and names every item once, by its
\* completed flag: the pending items in the order of priority rank (high,
\* medium, low) and then creation time; of the completed items the ten most
\* recently completed, latest first, with the number of the other completed
\* items.
C26_ListGroupsAndOrders ==
    [][(ret'.tool = "todo" /\ ret'.op = "execute" /\ ret'.known
           /\ ret'.args.action = Str(<<"list">>))
          => LET todos == todoInst[ret'.id].todos
                 item(i) == todos[IndexOf(todos, i)]
                 pending == ret'.pending
                 completed == ret'.completed
                 done == IdsWhere(todos, TRUE)
             IN  /\ UNCHANGED <<cfgMaxItems, todoInst, added>>
                 /\ ~ret'.raised /\ ret'.err = ""
                 /\ Range(pending) = IdsWhere(todos, FALSE)
                 /\ Len(pending) = Cardinality(Range(pending))
                 /\ \A a, b \in 1..Len(pending) :
                       a < b =>
                          \/ PriorityRank(item(pending[a]).priority)
                                < PriorityRank(item(pending[b]).priority)
                          \/ /\ item(pending[a]).priority = item(pending[b]).priority
                             /\ item(pending[a]).created_at <= item(pending[b]).created_at
                 /\ Range(completed) \subseteq done
                 /\ Len(completed) = Cardinality(Range(completed))
                 /\ Len(completed) = Min(ShownCompleted, Cardinality(done))
                 /\ \A a, b \in 1..Len(completed) :
                       a < b => item(completed[a]).completed_at
                                   >= item(completed[b]).completed_at
                 /\ \A i \in Range(completed), j \in done \ Range(completed) :
                       item(i).completed_at >= item(j).completed_at
                 /\ ret'.more = Cardinality(done) - Len(completed)
                 /\ Len(pending) + Len(completed) + ret'.more = Len(todos)]_vars

\* list has shown ten of eleven completed items, completed at two different
\* times, and two pending items
C26_Witness ==
    /\ TodoReturned("list")
    /\ ret.more = 1
    /\ Len(ret.completed) = ShownCompleted
    /\ Len(ret.pending) = 2
    /\ \E k \in 1..Len(todoInst[ret.id].todos) :
          todoInst[ret.id].todos[k].completed_at = 2


Priorities == {Str(<<"low">>), Str(<<"medium">>), Str(<<"high">>)}

\* C27: every item stored in a ledger has one of the priorities low, medium
\* and high.
C27_StoredPrioritiesAreValid ==
    \A id \in DOMAIN todoInst :
        \A k \in 1..Len(todoInst[id].todos) :
            todoInst[id].todos[k].priority \in Priorities


\* C28: in every ledger an item has a completion time exactly while it is
\* marked completed: a new item has none, complete sets it, incomplete
\* clears it.
C28_CompletedAtIffCompleted ==
    \A id \in DOMAIN todoInst :
        \A k \in 1..Len(todoInst[id].todos) :
            LET item == todoInst[id].todos[k]
            IN  item.completed <=> item.completed_at # NoTime

\* incomplete has reopened an item that was completed, next to an item that
\* is still completed
C28_Witness ==
    /\ TodoReturned("incomplete")
    /\ ret.err = "" /\ ret.already = ""
    /\ \E k, j \in 1..Len(todoInst[ret.id].todos) :
          /\ todoInst[ret.id].todos[k].id = ret.args.item_id.v
          /\ ~todoInst[ret.id].todos[k].completed
          /\ todoInst[ret.id].todos[j].completed
          /\ todoInst[ret.id].todos[j].completed_at = now


\* C29: a ledger never holds more than max_items items. An add with an item
\* text on a ledger that holds max_items items returns max_items_reached
\* with reward 0 and leaves the items, the id counter and the added total
\* as they are; an add with an item text on a ledger below max_items, such
\* as one that remove or clear has made room in, stores the item.
C29_LedgerStaysWithinCapacity ==
    [][/\ \A id \in DOMAIN todoInst' : Len(todoInst'[id].todos) <= cfgMaxItems
       /\ (ret' # ret /\ ret'.tool = "todo" /\ ret'.op = "execute" /\ ret'.known
              /\ ret'.args.action = Str(<<"add">>)
              /\ IsStr(ret'.args.item_text)
              /\ Strip(ret'.args.item_text.v) # <<>>)
             => LET todo_list == todoInst[ret'.id]
                IN  IF Len(todo_list.todos) >= cfgMaxItems
                    THEN /\ ~ret'.raised
                         /\ ret'.err = "max_items_reached"
                         /\ ret'.reward = 0
                         /\ todoInst' = todoInst
                         /\ added' = added
                    ELSE /\ ~ret'.raised
                         /\ ret'.err = ""
                         /\ ret'.reward = 10
                         /\ Len(todoInst'[ret'.id].todos) = Len(todo_list.todos) + 1
                         /\ todoInst'[ret'.id].next_id = todo_list.next_id + 1
                         /\ todoInst'[ret'.id].total_added = todo_list.total_added + 1]_vars

\* the third add has stored item 3 next to item 1: the ledger was full with
\* the items 1 and 2 before item 2 was removed
C29_Witness ==
    /\ TodoReturned("add")
    /\ ret.err = "" /\ ret.item_id = IdStr(3)
    /\ Len(todoInst[ret.id].todos) = cfgMaxItems
    /\ {todoInst[ret.id].todos[k].id : k \in 1..Len(todoInst[ret.id].todos)}
          = {IdStr(1), IdStr(3)}


---------------------------------------------------------------------------
(* Properties of the text that the command runner returns *)

HasMarker(text) == Len(text) >= 1 /\ <<text[Len(text)]>> = Truncated

BeforeMarker(text) == IF HasMarker(text) THEN SubSeq(text, 1, Len(text) - 1) ELSE text

HasSuffix(text) ==
    LET body == BeforeMarker(text)
    IN  Len(body) >= Len(ExecutedIn)
           /\ SubSeq(body, Len(body) - Len(ExecutedIn) + 1, Len(body)) = ExecutedIn

\* C30: the text returned for a process that ended, with exit code 0 or not,
\* is at most max_output_length characters followed by the truncation
\* marker; the marker is there exactly when the text before the truncation
\* was longer than max_output_length; the working directory is added exactly
\* when the output before it is shorter than 500 characters.
C30_OutputIsCappedAndMarked ==
    (ret.tool = "bash" /\ ret.op = "execute" /\ ret.outcome \in {"exit0", "exitN"})
       => LET prog == Program(ret.args[1].v)
              output == Output(prog.rc, prog.out, prog.err)
              before == IF HasSuffix(ret.text) THEN output \o ExecutedIn ELSE output
          IN  /\ TextLen(BeforeMarker(ret.text)) <= MaxOutputLength
              /\ HasMarker(ret.text) <=> TextLen(before) > MaxOutputLength
              /\ HasSuffix(ret.text) <=> TextLen(output) < ContextBelow
              /\ BeforeMarker(ret.text) = Take(before, MaxOutputLength)
              /\ ~HasMarker(ret.text) => ret.text = before

\* the instance has run a command whose output of 499 characters was
\* returned with the working directory, and one whose output of 601
\* characters was returned cut to 600 characters and marked
C30_Witness ==
    /\ ret.tool = "bash" /\ ret.op = "execute" /\ ret.known
    /\ ret.outcome = "exitN"
    /\ HasMarker(ret.text) /\ ~HasSuffix(ret.text)
    /\ TextLen(ret.text) = MaxOutputLength + TextLen(Truncated)
    /\ \E k \in 1..Len(bashInst[ret.id].outputs) :
          LET text == bashInst[ret.id].outputs[k]
          IN  /\ HasSuffix(text) /\ ~HasMarker(text)
              /\ TextLen(text) = ContextBelow - 1 + TextLen(ExecutedIn)


---------------------------------------------------------------------------
(* Properties of the command runner's reward *)

\* the recorded command ran as a process that ended with exit code 0
ExitedZero(cmd, output) ==
    /\ IsStr(cmd)
    /\ ~Program(cmd.v).long
    /\ Program(cmd.v).rc = 0
    /\ output = FormatOutput(0, Program(cmd.v).out, Program(cmd.v).err)

\* C31: calc_reward of the command runner returns (recorded commands that
\* ended with exit code 0) / (recorded commands), and 0 when no command is
\* recorded: a command that ends with another exit code or times out is
\* recorded and not counted, a command that ends with exit code 0 is counted
\* whatever it wrote.  Stated for the instances whose commands were all
\* started.
C31_RewardIsExitZeroRate ==
    (ret.tool = "bash" /\ ret.op = "calc_reward" /\ ret.known /\ ret.id \in DOMAIN bashInst
        /\ \A k \in 1..Len(bashInst[ret.id].outputs) :
               bashInst[ret.id].outputs[k] # SpawnErrorText)
       => LET instance == bashInst[ret.id]
              total == Len(instance.commands_executed)
              zero == {k \in 1..total :
                          ExitedZero(instance.commands_executed[k], instance.outputs[k])}
          IN  IF total = 0 THEN ret.ratio[1] = 0
              ELSE ret.ratio[1] * total = Cardinality(zero) * ret.ratio[2]


---------------------------------------------------------------------------
(* Properties of the sub-scores of a session *)

FlagsSet(instance) ==
    Bit(instance.has_used_todo) + Bit(instance.has_used_bash)
        + Bit(instance.has_used_file_reader)

\* C32: within a session a tool-usage flag that is set stays set, so that
\* tool_usage never decreases, and after every generate_response call
\* tool_usage is (number of flags set) / 3.  A session ends when the id is
\* finalized or started again.
C32_ToolFlagsAreCumulative ==
    [][\A id \in DOMAIN interInst' :
          /\ interInst'[id].tool_usage_score = FlagsSet(interInst'[id])
          /\ (id \in DOMAIN interInst
                 /\ ~(ret' # ret /\ ret'.op = "start_interaction" /\ ret'.id = id))
                => /\ interInst[id].has_used_todo => interInst'[id].has_used_todo
                   /\ interInst[id].has_used_bash => interInst'[id].has_used_bash
                   /\ interInst[id].has_used_file_reader
                         => interInst'[id].has_used_file_reader
                   /\ interInst'[id].tool_usage_score >= interInst[id].tool_usage_score]_vars

\* a later turn whose message names no ledger keyword has returned, and the
\* ledger flag set by an earlier turn is still set
C32_Witness ==
    /\ TurnTaken /\ ~ret.raised
    /\ interInst[ret.id].turn_count >= 2
    /\ interInst[ret.id].has_used_todo
    /\ ~AnyIn({"todo", "task", "plan", "step"}, LowerText(LatestContent(ret.args).v))
    /\ interInst[ret.id].tool_usage_score = 2


\* C33: in every session tool_usage, analysis_quality and completeness lie
\* in [0, 1], completeness is one of 0, 1/3, 2/3 and 1, and every score that
\* generate_response or calculate_score returns lies in [0, 1].
C33_ScoresStayInUnitInterval ==
    /\ \A id \in DOMAIN interInst :
          /\ interInst[id].tool_usage_score \in 0..3
          /\ interInst[id].analysis_quality_score \in 0..10
          /\ interInst[id].completeness_score \in 0..3
    /\ (ret.tool = "interaction" /\ ret.op \in {"generate_response", "calculate_score"})
          => ret.score \in 0..300

\* a turn has returned the score 1.0 for a session whose three sub-scores
\* are 1.0
C33_Witness ==
    /\ TurnTaken /\ ~ret.raised
    /\ ret.score = 300
    /\ interInst[ret.id].tool_usage_score = 3
    /\ interInst[ret.id].analysis_quality_score = 10
    /\ interInst[ret.id].completeness_score = 3


---------------------------------------------------------------------------
(* Properties of the file reader *)

\* C34: for a file of T lines and a requested line count n, given or not,
\* the reader returns the first min(T, min(n, max_lines)) lines of the file
\* in their order (max_lines in place of n when n is not given, no line for
\* a negative n), and reports truncated exactly when the file has more lines
\* than it returned.
C34_ReadsRequestedLines ==
    (ret.tool = "read" /\ ret.op = "execute" /\ ret.known /\ ~ret.raised /\ ret.err = "")
       => LET all == SplitLines(TextRead(ReadBytes(fs, ret.full)), <<>>)
              n == ret.args[2]
              limit == IF n.t = "int" THEN Min(n.n, MaxLines) ELSE MaxLines
              count == IF limit <= 0 THEN 0 ELSE Min(Len(all), limit)
          IN  /\ ret.lines = SubSeq(all, 1, count)
              /\ ret.value = count
              /\ ret.truncated <=> Len(all) > count


---------------------------------------------------------------------------
(* Properties of concurrent edits *)

\* C35: two execute calls of the editor on the same path can interleave
\* between the read of one and its overwrite.  The call that overwrites
\* after the file was written by the other call writes the replacement made
\* in the content that it read, reports success and is counted: the file
\* then lacks what the other call wrote.
C35_StaleOverwriteLosesUpdate ==
    [][(frame.pc = "write" /\ frame'.pc = "idle" /\ peer' = peer /\ ret'.reward = 10
           /\ ReadBytes(fs, frame.full_path) # frame.pre)
          => /\ ret'.tool = "edit" /\ ret'.op = "execute" /\ ~ret'.raised
             /\ ReadBytes(fs', frame.full_path)
                   = TextWrite(ReplaceFirst(TextRead(frame.pre),
                                            frame.args[2].v, frame.args[3].v))
             /\ frame.known
                   => editInst'[frame.id].edits_made = editInst[frame.id].edits_made + 1]_vars

\* both calls have reported success, each counted as the one edit of its
\* instance, and the file holds the replacement of i2 only
C35_Witness ==
    /\ frame.pc = "idle" /\ peer.pc = "idle"
    /\ DOMAIN editInst = {"i1", "i2"}
    /\ editInst["i1"].edits_made = 1
    /\ editInst["i2"].edits_made = 1
    /\ ret.tool = "edit" /\ ret.op = "execute" /\ ret.reward = 10 /\ ret.id = "i2"
    /\ fs[<<"sb", "f">>].data = <<"a", "d">>


---------------------------------------------------------------------------
(* Properties of the ledger's counters *)

\* C36: after any sequence of add, complete, incomplete, remove, clear, list
\* and search on an instance, the completed counter is the number of items
\* marked completed, the added total is the id counter minus 1, the
\* completed counter is at most the added total, and calc_reward returns a
\* value in [0, 1].
C36_CountersMatchItems ==
    /\ \A id \in DOMAIN todoInst :
          LET todo_list == todoInst[id]
          IN  /\ todo_list.total_completed = Cardinality(IdsWhere(todo_list.todos, TRUE))
              /\ todo_list.total_added = todo_list.next_id - 1
              /\ todo_list.total_completed <= todo_list.total_added
    /\ (ret.tool = "todo" /\ ret.op = "calc_reward")
          => /\ 0 <= ret.ratio[1]
             /\ ret.ratio[1] <= ret.ratio[2]

\* calc_reward has returned 1/3 for a ledger that has taken three adds and
\* holds two items, one of them completed
C36_Witness ==
    /\ ret.tool = "todo" /\ ret.op = "calc_reward" /\ ret.known
    /\ ret.id \in DOMAIN todoInst
    /\ Len(todoInst[ret.id].todos) = 2
    /\ Cardinality(IdsWhere(todoInst[ret.id].todos, TRUE)) = 1
    /\ todoInst[ret.id].total_added = 3
    /\ ret.ratio = <<1, 3>>


---------------------------------------------------------------------------
(* Properties of a release during a running command *)

\* C37: when release(id) has run while execute(id) of the command runner
\* waits for its process, execute still returns its result without raising,
\* stores no record for id and adds the command to no history.
C37_ReleaseDuringExecute ==
    [][(bframe.pc = "waiting" /\ bframe'.pc = "idle"
           /\ bframe.known /\ bframe.id \notin DOMAIN bashInst)
          => /\ ret'.tool = "bash" /\ ret'.op = "execute" /\ ret'.id = bframe.id
             /\ ~ret'.raised
             /\ ret'.args[1] = bframe.command
             /\ ret'.text # <<>>
             /\ ret'.outcome \in {"exit0", "exitN", "timeout"}
             /\ ret'.reward = IF StartsWithError(ret'.text) THEN 0 ELSE 10
             /\ bashInst' = bashInst]_vars

\* execute has returned the output of a command that ended with exit code
\* 0; the record that the instance had when execute was called is gone
C37_Witness ==
    /\ BashReturned
    /\ ret.known /\ ret.id \notin DOMAIN bashInst
    /\ ret.outcome = "exit0" /\ ret.reward = 10
    /\ bashInst = <<>>


---------------------------------------------------------------------------
(* Properties of the backup over several edits *)

\* C38: with backups enabled, when an edit succeeds <path>.bak holds the
\* content that the file had immediately before that edit, whatever an
\* earlier edit had left there; an edit that fails is rejected before the
\* first write and leaves the filesystem, an existing backup included, as it
\* was.
C38_BackupIsLastPreEdit ==
    [][cfgBackup =>
          /\ (frame.pc = "write" /\ frame'.pc = "idle" /\ frame.known
                 /\ ret'.tool = "edit" /\ ret'.op = "execute" /\ ret'.reward = 10)
                => BakHolds(fs', frame.full_path, frame.pre)
          /\ (ret' # ret /\ ret'.tool = "edit" /\ ret'.op = "execute" /\ ret'.known
                 /\ ret'.reward = 0)
                => /\ frame.pc \in {"idle", "backup"}
                   /\ fs' = fs]_vars


---------------------------------------------------------------------------
(* Properties of a session that is started again *)

\* C39: start_interaction on an id that has a live session replaces the
\* session with a fresh one: turn_count 0, the three tool-usage flags false,
\* the three sub-scores 0.0, and the ground_truth of this call; no other
\* session changes.
C39_StartReplacesSession ==
    [][(ret' # ret /\ ret'.tool = "interaction" /\ ret'.op = "start_interaction"
           /\ ret'.id \in DOMAIN interInst)
          => /\ DOMAIN interInst' = DOMAIN interInst
             /\ interInst'[ret'.id].turn_count = 0
             /\ ~interInst'[ret'.id].has_used_todo
             /\ ~interInst'[ret'.id].has_used_bash
             /\ ~interInst'[ret'.id].has_used_file_reader
             /\ interInst'[ret'.id].tool_usage_score = 0
             /\ interInst'[ret'.id].analysis_quality_score = 0
             /\ interInst'[ret'.id].completeness_score = 0
             /\ interInst'[ret'.id].response = Str(<<>>)
             /\ interInst'[ret'.id].ground_truth = ret'.args[2]
             /\ \A id \in DOMAIN interInst \ {ret'.id} : interInst'[id] = interInst[id]]_vars

\* start_interaction has returned for an id that had a session, and the
\* session is fresh with the ground_truth of the call
C39_Witness ==
    /\ ret.tool = "interaction" /\ ret.op = "start_interaction" /\ ret.known
    /\ ret.args = <<ret.id, Str(<<"tools_architecture_analysis">>)>>
    /\ interInst[ret.id].turn_count = 0
    /\ interInst[ret.id].tool_usage_score = 0
    /\ interInst[ret.id].ground_truth = Str(<<"tools_architecture_analysis">>)


---------------------------------------------------------------------------
(* Properties of rejected and counted edits *)

\* the rejections that execute returns from its checks
EditRejections ==
    {"missing_filepath", "missing_old_string", "invalid_path", "file_not_found",
     "file_too_large", "string_not_found"}

\* C40: an edit that is rejected (missing filepath or old_string, path
\* outside the sandbox, file not found, file too large, old_string absent)
\* returns before the first write: the filesystem (the target and any
\* <path>.bak) and the edit counters are unchanged.  The edit counter of a
\* created instance grows by exactly 1 in a successful edit and in no other
\* step of an edit, and calc_reward returns it.
C40_RejectionsWriteNothing ==
    [][/\ (ret' # ret /\ ret'.tool = "edit" /\ ret'.op = "execute"
              /\ ret'.err \in EditRejections)
          => /\ frame.pc = "idle" /\ frame'.pc = "idle"
             /\ ret'.reward = 0
             /\ fs' = fs
             /\ editInst' = editInst
       /\ (frame.pc # "idle" /\ frame'.pc = "idle" /\ frame.known)
          => editInst'[frame.id].edits_made
                = editInst[frame.id].edits_made + (IF ret'.reward = 10 THEN 1 ELSE 0)
       /\ (frame' # frame /\ frame'.pc # "idle") => editInst' = editInst
       /\ (ret' # ret /\ ret'.tool = "edit" /\ ret'.op = "calc_reward" /\ ret'.known)
          => ret'.value = editInst[ret'.id].edits_made]_vars

\* an edit of a created instance is rejected after a successful one, with
\* the backup of the first edit in place and one edit counted
C40_Witness ==
    /\ EditReturned /\ ret.known /\ ret.err = "string_not_found" /\ ret.reward = 0
    /\ cfgBackup /\ Exists(fs, BakPath(Root \o <<"f">>))
    /\ editInst[ret.id].edits_made = 1

=============================================================================
